---- MODULE Spec2Model ----
(***************************************************************************)
(* Model of the content privacy and credential security core of            *)
(* claude-mem-secure:                                                      *)
(*   KeyringManager      src/src/services/crypto/KeyringManager.ts         *)
(*   TokenAuth           src/src/services/auth/TokenAuth.ts                *)
(*   DatabaseEncryption  src/src/services/crypto/DatabaseEncryption.ts     *)
(*   tag-stripping       src/src/utils/tag-stripping.ts                    *)
(*                                                                         *)
(* Every public method is an async function.  A step of the model is what  *)
(* the JavaScript event loop runs without interruption: from the start of  *)
(* a call, or from the completion of an I/O await (the dynamic import of   *)
(* keytar, a keytar call), up to the next I/O await or to the return of    *)
(* the public method.  Awaits of already settled promises only hop through *)
(* the microtask queue, which no I/O completion can interleave with.       *)
(*                                                                         *)
(* A secret is modelled by its identity, its length and whether all its    *)
(* characters are hex digits; crypto.randomBytes is a source of fresh      *)
(* strings.  A text given to the sanitizer is the sequence of its          *)
(* characters, and each regular expression of tag-stripping.ts is an       *)
(* operator that tells where its match at a position ends.                 *)
(***************************************************************************)
EXTENDS Integers, Sequences, FiniteSets, TLC

VARIABLES
    tasks,            \* the async calls in flight, one caller per element of Tasks
    keyring,          \* the OS keyring entries of service 'claude-mem'
    env,              \* process.env
    keytarInstalled,  \* whether import('keytar') succeeds on this machine
    initialized,      \* KeyringManager.initialized
    keytar,           \* KeyringManager.keytar: "null" or "module"
    keytarAvailable,  \* KeyringManager.keytarAvailable
    nextRand,         \* number of crypto.randomBytes strings drawn so far
    CLAUDE_MEM_REDACT_PATTERNS,  \* the setting of that name in ~/.claude-mem/settings.json
    san,              \* the last call of the redaction engine and what it returned
    settingsJson,     \* the file ~/.claude-mem/settings.json
    db,               \* the SQLite tables of the session store, and the archive directory
    cleanups          \* the calls of RetentionManager in progress, one per task

credVars == <<tasks, keyring, env, keytarInstalled, initialized, keytar,
              keytarAvailable, nextRand>>

redactVars == <<CLAUDE_MEM_REDACT_PATTERNS, san>>

retentionVars == <<db, cleanups>>

vars == <<tasks, keyring, env, keytarInstalled, initialized, keytar,
          keytarAvailable, nextRand, CLAUDE_MEM_REDACT_PATTERNS, san,
          settingsJson, db, cleanups>>

------------------------------------------------------------------------------
(* Bounds *)

\* how many random strings (tokens, keys) the process may generate
MaxGen == 2

Tasks == {"t1", "t2"}

------------------------------------------------------------------------------
(* Program constants *)

TOKEN_BYTES == 32
DB_KEY_LENGTH == 32

SERVICE_NAME == "claude-mem"
ENCRYPTION_KEY_NAME == "DB_ENCRYPTION_KEY"
AUTH_TOKEN_NAME == "AUTH_TOKEN"

SecretKey == {"DB_ENCRYPTION_KEY", "AUTH_TOKEN"}

------------------------------------------------------------------------------
(* Strings *)

Str(i, l, h) == [id |-> i, len |-> l, hex |-> h]

\* null / undefined
Null == Str(-1, 0, FALSE)
\* ""
Empty == Str(0, 0, FALSE)

\* JavaScript truthiness of a string-or-null
Truthy(s) == s.len > 0

\* randomBytes(n).toString('hex'): a fresh string of 2n hex digits
HexOfRandomBytes(n, k) == Str(100 + k, 2 * n, TRUE)

\* values found in the keyring or the environment before the process starts
StoredKey == Str(1, 64, TRUE)
StoredToken == Str(2, 64, TRUE)
EnvKey == Str(3, 64, TRUE)
EnvToken == Str(4, 12, FALSE)
\* candidates a client may present
Wrong64 == Str(5, 64, TRUE)
Short5 == Str(6, 5, FALSE)

\* API keys found in settings.json by installations that predate the keyring
GeminiKey == Str(8, 39, FALSE)
OpenRouterKey == Str(9, 73, FALSE)
\* "  ": a string of blanks
Blank == Str(10, 2, FALSE)

\* secretKeys, SettingsDefaultsManager.ts lines 253-256: oldKey and newKey
ApiSettings == <<"CLAUDE_MEM_GEMINI_API_KEY", "CLAUDE_MEM_OPENROUTER_API_KEY">>
ApiSecrets == <<"GEMINI_API_KEY", "OPENROUTER_API_KEY">>

\* settings.json fields of the API keys: none present
NoApiKeys ==
    [k \in {ApiSettings[i] : i \in 1..Len(ApiSettings)} |-> Null]

TrueText == <<"t", "r", "u", "e">>
FalseText == <<"f", "a", "l", "s", "e">>

\* DEFAULTS, SettingsDefaultsManager.ts lines 105-109: the retention settings
DEFAULTS ==
    [CLAUDE_MEM_RETENTION_ENABLED |-> TrueText,
     CLAUDE_MEM_RETENTION_DAYS |-> <<"9", "0">>,
     CLAUDE_MEM_ARCHIVE_BEFORE_DELETE |-> TrueText]

\* the retention settings of a file that holds none of them
NoSettings == [k \in DOMAIN DEFAULTS |-> <<"undefined">>]

\* the object JSON.parse makes of a settings.json without content
NoObject == [data |-> NoSettings, keys |-> NoApiKeys]

------------------------------------------------------------------------------
(* Return values, log records, task records *)

Ret(k, a, c, d) == [kind |-> k, s |-> a, s2 |-> c, b |-> d]
RetNone == Ret("none", Null, Null, FALSE)
RetNull == Ret("null", Null, Null, FALSE)
RetStr(a) == Ret("str", a, Null, FALSE)
RetBool(d) == Ret("bool", Null, Null, d)
RetPair(o, n) == Ret("pair", o, n, FALSE)
RetThrow == Ret("throw", Null, Null, FALSE)

\* string | null as returned by getSecret
RetStrOrNull(a) == IF a = Null THEN RetNull ELSE RetStr(a)

\* One call of logger.<lvl>(component, message, undefined, data).  name is the
\* secret name interpolated in the message, nums the numbers carried, err the
\* message of a logged error, strs the secret values carried.
LogRec(l, c, m, n, e, v) ==
    [lvl |-> l, comp |-> c, msg |-> m, name |-> n, nums |-> << >>, err |-> e,
     strs |-> v, texts |-> << >>]

\* a record that carries numbers only (counts, lengths)
LogNums(l, c, m, ns) ==
    [lvl |-> l, comp |-> c, msg |-> m, name |-> "", nums |-> ns, err |-> "",
     strs |-> << >>, texts |-> << >>]

IdleTask ==
    [op |-> "none", pc |-> "idle", phase |-> 0,
     kop |-> "none", kname |-> "none", kval |-> Null, kret |-> RetNone,
     arg |-> Null, gen |-> Null, ret |-> RetNone, log |-> << >>,
     flow |-> "none", hist |-> << >>, during |-> {},
     settings |-> NoObject, modified |-> FALSE]

\* The part of the state one uninterrupted run of a task reads and writes.
Machine(t) ==
    [t |-> tasks[t], keyring |-> keyring, initialized |-> initialized,
     keytar |-> keytar, keytarAvailable |-> keytarAvailable, nextRand |-> nextRand,
     settingsJson |-> settingsJson]

Log(m, rec) == [m EXCEPT !.t.log = Append(@, rec)]

\* the keyring method returns to the public method that awaits it
KReturn(m, r) == [m EXCEPT !.t.pc = "kret", !.t.kret = r]

\* the public method returns (or throws) to its caller
Finish(m, r) == [m EXCEPT !.t.pc = "done", !.t.ret = r]

------------------------------------------------------------------------------
(* KeyringManager *)

\* the message of the error import('keytar') rejects with
ImportError == "Cannot find module 'keytar'"
\* the message of the error a failing keytar call rejects with
KeytarError == "keytar call failed"

\* initialize(), lines 36-45: the synchronous part of a call of initialize()
\* that finds the manager uninitialized; the import is then awaited
initializeStart(m) == [m EXCEPT !.initialized = TRUE, !.t.pc = "import"]

\* initialize(), lines 45-53: the import has settled
initializeDone(m) ==
    IF keytarInstalled
    THEN Log([m EXCEPT !.keytar = "module", !.keytarAvailable = TRUE],
             LogRec("info", "SYSTEM", "KeyringManager initialized with OS keyring support",
                    "", "", << >>))
    ELSE Log([m EXCEPT !.keytarAvailable = FALSE],
             LogRec("warn", "SYSTEM",
                    "Keyring not available, falling back to environment variables",
                    "", ImportError, << >>))

\* the guard every method puts on its keytar call
KeytarUsable(m) == m.keytarAvailable /\ m.keytar # "null"

\* logger.info('SYSTEM', `Secret stored in OS keyring: ${key}`), line 74
setSecretStoredLog(key, value) ==
    LogRec("info", "SYSTEM", "Secret stored in OS keyring", key, "", << >>)

\* setSecret, lines 66-80, up to the await of keytar.setPassword
setSecretBody(m) ==
    IF ~Truthy(m.t.kval)
    THEN KReturn(Log(m, LogRec("warn", "SYSTEM", "Attempted to store empty secret",
                               m.t.kname, "", << >>)),
                 RetBool(FALSE))
    ELSE IF KeytarUsable(m)
    THEN [m EXCEPT !.t.pc = "io"]
    ELSE KReturn(Log(m, LogRec("warn", "SYSTEM",
                               "Keyring unavailable. Set via environment variable instead",
                               m.t.kname, "", << >>)),
                 RetBool(FALSE))

\* setSecret as it would be if it reported a write it did not make
setSecretDone_Unwritten(m, ok) ==
    KReturn(Log(m, setSecretStoredLog(m.t.kname, m.t.kval)), RetBool(TRUE))

\* setSecret, lines 73-84: keytar.setPassword has settled
setSecretDone(m, ok) ==
    IF ok
    THEN KReturn(Log([m EXCEPT !.keyring[m.t.kname] = m.t.kval],
                     setSecretStoredLog(m.t.kname, m.t.kval)),
                 RetBool(TRUE))
    ELSE KReturn(Log(m, LogRec("error", "SYSTEM", "Failed to store secret",
                               m.t.kname, KeytarError, << >>)),
                 RetBool(FALSE))

\* getSecret, lines 110-118: the environment fallback
getSecretEnv(m) ==
    LET envValue == env[m.t.kname] IN
    IF Truthy(envValue)
    THEN KReturn(Log(m, LogRec("debug", "SYSTEM", "Secret retrieved from environment",
                               m.t.kname, "", << >>)),
                 RetStr(envValue))
    ELSE KReturn(Log(m, LogRec("debug", "SYSTEM", "Secret not found",
                               m.t.kname, "", << >>)),
                 RetNull)

\* getSecret, lines 100-108, up to the await of keytar.getPassword
getSecretBody(m) ==
    IF KeytarUsable(m) THEN [m EXCEPT !.t.pc = "io"] ELSE getSecretEnv(m)

\* getSecret as it would be if the environment took precedence
getSecretDone_EnvFirst(m, ok) ==
    IF Truthy(env[m.t.kname]) \/ ~Truthy(m.keyring[m.t.kname])
    THEN getSecretEnv(m)
    ELSE KReturn(m, RetStr(m.keyring[m.t.kname]))

\* getSecret, lines 103-122: keytar.getPassword has settled
getSecretDone(m, ok) ==
    LET value == m.keyring[m.t.kname] IN
    IF ~ok
    THEN KReturn(Log(m, LogRec("error", "SYSTEM", "Failed to retrieve secret",
                               m.t.kname, KeytarError, << >>)),
                 RetNull)
    ELSE IF Truthy(value)
    THEN KReturn(Log(m, LogRec("debug", "SYSTEM", "Secret retrieved from OS keyring",
                               m.t.kname, "", << >>)),
                 RetStr(value))
    ELSE getSecretEnv(m)

\* deleteSecret, lines 136-148, up to the await of keytar.deletePassword
deleteSecretBody(m) ==
    IF KeytarUsable(m)
    THEN [m EXCEPT !.t.pc = "io"]
    ELSE KReturn(Log(m, LogRec("warn", "SYSTEM", "Keyring unavailable. Cannot delete secret",
                               m.t.kname, "", << >>)),
                 RetBool(FALSE))

\* deleteSecret as it would be if it cleared the whole service
deleteSecretDone_AllNames(m, ok) ==
    KReturn([m EXCEPT !.keyring = [k \in SecretKey |-> Null]],
            RetBool(m.keyring[m.t.kname] # Null))

\* deleteSecret, lines 138-152: keytar.deletePassword has settled; it resolves
\* to whether an entry was removed
deleteSecretDone(m, ok) ==
    LET result == m.keyring[m.t.kname] # Null IN
    IF ~ok
    THEN KReturn(Log(m, LogRec("error", "SYSTEM", "Failed to delete secret",
                               m.t.kname, KeytarError, << >>)),
                 RetBool(FALSE))
    ELSE KReturn(Log([m EXCEPT !.keyring[m.t.kname] = Null],
                     IF result
                     THEN LogRec("info", "SYSTEM", "Secret deleted from OS keyring",
                                 m.t.kname, "", << >>)
                     ELSE LogRec("debug", "SYSTEM", "Secret not found in OS keyring",
                                 m.t.kname, "", << >>)),
                 RetBool(result))

\* hasSecret, lines 173-178: the environment check
hasSecretEnv(m) == KReturn(m, RetBool(Truthy(env[m.t.kname])))

\* hasSecret, lines 164-171, up to the await of keytar.getPassword
hasSecretBody(m) ==
    IF KeytarUsable(m) THEN [m EXCEPT !.t.pc = "io"] ELSE hasSecretEnv(m)

\* hasSecret as it would be if a failed keyring lookup fell through to the
\* environment check
hasSecretDone_ErrorFallsThrough(m, ok) ==
    IF ok /\ Truthy(m.keyring[m.t.kname]) THEN KReturn(m, RetBool(TRUE)) ELSE hasSecretEnv(m)

\* hasSecret, lines 167-182: keytar.getPassword has settled
hasSecretDone(m, ok) ==
    IF ~ok
    THEN KReturn(Log(m, LogRec("error", "SYSTEM", "Failed to check secret existence",
                               m.t.kname, KeytarError, << >>)),
                 RetBool(FALSE))
    ELSE IF Truthy(m.keyring[m.t.kname])
    THEN KReturn(m, RetBool(TRUE))
    ELSE hasSecretEnv(m)

\* isKeytarAvailable, line 192
isKeytarAvailableBody(m) == KReturn(m, RetBool(m.keytarAvailable))

\* what a keyring method does once its `await this.initialize()` has returned
KBody(m) ==
    CASE m.t.kop = "setSecret" -> setSecretBody(m)
      [] m.t.kop = "getSecret" -> getSecretBody(m)
      [] m.t.kop = "deleteSecret" -> deleteSecretBody(m)
      [] m.t.kop = "hasSecret" -> hasSecretBody(m)
      [] m.t.kop = "isKeytarAvailable" -> isKeytarAvailableBody(m)

\* what a keyring method does once its keytar call has settled
KDone(m, ok) ==
    CASE m.t.kop = "setSecret" -> setSecretDone(m, ok)
      [] m.t.kop = "getSecret" -> getSecretDone(m, ok)
      [] m.t.kop = "deleteSecret" -> deleteSecretDone(m, ok)
      [] m.t.kop = "hasSecret" -> hasSecretDone(m, ok)

\* a call of a keyring method: `await this.initialize()` and the body
KCall(m, kop, key, value) ==
    LET m1 == [m EXCEPT !.t.kop = kop, !.t.kname = key, !.t.kval = value,
                        !.t.kret = RetNone]
    IN IF m1.initialized THEN KBody(m1) ELSE initializeStart(m1)

------------------------------------------------------------------------------
(* TokenAuth *)

\* generateToken, lines 126-129
generateToken(m) ==
    [m EXCEPT !.nextRand = @ + 1,
              !.t.gen = HexOfRandomBytes(TOKEN_BYTES, m.nextRand + 1)]

\* crypto.timingSafeEqual(Buffer.from(a), Buffer.from(b)): throws a RangeError
\* when the byte lengths differ, else tells whether the bytes are equal
timingSafeEqual(a, b) ==
    IF a.len # b.len THEN RetThrow ELSE RetBool(a = b)

\* getOrCreateToken, line 32
getOrCreateTokenBegin(m) ==
    KCall([m EXCEPT !.t.phase = 1], "getSecret", AUTH_TOKEN_NAME, Null)

\* getOrCreateToken, lines 33-48
getOrCreateTokenCont(m) ==
    IF m.t.phase = 1
    THEN LET existingToken == m.t.kret.s IN
         IF Truthy(existingToken)
         THEN Finish(Log(m, LogRec("debug", "AUTH",
                                   "Retrieved existing auth token from keyring",
                                   "", "", << >>)),
                     RetStr(existingToken))
         ELSE LET m1 == generateToken(
                           Log(m, LogRec("info", "AUTH",
                                         "No existing auth token found, generating new token",
                                         "", "", << >>)))
              IN KCall([m1 EXCEPT !.t.phase = 2], "setSecret", AUTH_TOKEN_NAME, m1.t.gen)
    ELSE LET stored == m.t.kret.b IN
         Finish(IF stored THEN m
                ELSE Log(m, LogRec("warn", "AUTH",
                                   "Failed to store auth token in keyring, token will not persist",
                                   "", "", << >>)),
                RetStr(m.t.gen))

\* validateToken, lines 58-63
validateTokenBegin(m) ==
    IF ~Truthy(m.t.arg)
    THEN Finish(Log(m, LogRec("debug", "AUTH", "Token validation failed: empty token",
                              "", "", << >>)),
                RetBool(FALSE))
    ELSE KCall([m EXCEPT !.t.phase = 1], "getSecret", AUTH_TOKEN_NAME, Null)

\* validateToken, lines 64-79
validateTokenCont(m) ==
    LET storedToken == m.t.kret.s
        isValid == timingSafeEqual(m.t.arg, storedToken)
    IN IF ~Truthy(storedToken)
       THEN Finish(Log(m, LogRec("warn", "AUTH",
                                 "Token validation failed: no stored token found",
                                 "", "", << >>)),
                   RetBool(FALSE))
       ELSE IF isValid.kind = "throw"
       THEN Finish(m, RetThrow)
       ELSE IF ~isValid.b
       THEN Finish(Log(m, LogRec("debug", "AUTH", "Token validation failed: token mismatch",
                                 "", "", << >>)),
                   isValid)
       ELSE Finish(m, isValid)

\* regenerateToken, lines 89-92
regenerateTokenBegin(m) ==
    LET m1 == generateToken(Log(m, LogRec("info", "AUTH",
                                          "Regenerating authentication token",
                                          "", "", << >>)))
    IN KCall([m1 EXCEPT !.t.phase = 1], "setSecret", AUTH_TOKEN_NAME, m1.t.gen)

\* regenerateToken, lines 94-98
regenerateTokenCont(m) ==
    LET stored == m.t.kret.b IN
    Finish(IF stored THEN m
           ELSE Log(m, LogRec("warn", "AUTH",
                              "Failed to store regenerated token in keyring",
                              "", "", << >>)),
           RetStr(m.t.gen))

------------------------------------------------------------------------------
(* DatabaseEncryption *)

\* generateEncryptionKey, lines 70-76
generateEncryptionKey(m) ==
    Log([m EXCEPT !.nextRand = @ + 1,
                  !.t.gen = HexOfRandomBytes(DB_KEY_LENGTH, m.nextRand + 1)],
        LogNums("debug", "SYSTEM", "Generated encryption key", <<DB_KEY_LENGTH * 8>>))

\* getOrCreateEncryptionKey, line 33
getOrCreateEncryptionKeyBegin(m) ==
    KCall([m EXCEPT !.t.phase = 1], "getSecret", ENCRYPTION_KEY_NAME, Null)

\* getOrCreateEncryptionKey as it would be if a key that cannot be persisted
\* were an error
getOrCreateEncryptionKeyCont_Fatal(m) ==
    IF m.t.phase = 1
    THEN IF Truthy(m.t.kret.s)
         THEN Finish(m, RetStr(m.t.kret.s))
         ELSE LET m1 == generateEncryptionKey(m)
              IN KCall([m1 EXCEPT !.t.phase = 2], "setSecret", ENCRYPTION_KEY_NAME, m1.t.gen)
    ELSE IF m.t.kret.b
    THEN Finish(m, RetStr(m.t.gen))
    ELSE Finish(Log(m, LogRec("error", "SYSTEM", "Failed to get or create encryption key",
                              "", "", << >>)),
                RetThrow)

\* getOrCreateEncryptionKey, lines 35-58
getOrCreateEncryptionKeyCont(m) ==
    IF m.t.phase = 1
    THEN LET existingKey == m.t.kret.s IN
         IF Truthy(existingKey)
         THEN Finish(Log(m, LogRec("debug", "SYSTEM",
                                   "Retrieved existing database encryption key",
                                   "", "", << >>)),
                     RetStr(existingKey))
         ELSE LET m1 == generateEncryptionKey(
                           Log(m, LogRec("info", "SYSTEM",
                                         "No encryption key found, generating new key",
                                         "", "", << >>)))
              IN KCall([m1 EXCEPT !.t.phase = 2], "setSecret", ENCRYPTION_KEY_NAME, m1.t.gen)
    ELSE LET stored == m.t.kret.b IN
         Finish(Log(m, IF stored
                       THEN LogRec("info", "SYSTEM",
                                   "Generated and stored new database encryption key",
                                   "", "", << >>)
                       ELSE LogRec("warn", "SYSTEM",
                                   "Failed to store encryption key in keyring. Using generated key for this session only.",
                                   "", "", << >>)),
                RetStr(m.t.gen))

\* rotateEncryptionKey, line 95
rotateEncryptionKeyBegin(m) ==
    KCall([m EXCEPT !.t.phase = 1], "getSecret", ENCRYPTION_KEY_NAME, Null)

\* rotateEncryptionKey as it would be if it created the key it does not find
rotateEncryptionKeyCont_AutoCreate(m) ==
    LET oldKey == m.t.kret.s
        m1 == generateEncryptionKey(m)
    IN IF ~Truthy(oldKey)
       THEN Finish(m1, RetPair(m1.t.gen, m1.t.gen))
       ELSE Finish(m1, RetPair(oldKey, m1.t.gen))

\* rotateEncryptionKey as it would be if it persisted the new key itself
rotateEncryptionKeyCont_Persisting(m) ==
    LET oldKey == m.t.kret.s IN
    IF ~Truthy(oldKey)
    THEN Finish(m, RetThrow)
    ELSE LET m1 == generateEncryptionKey(m) IN
         Finish([m1 EXCEPT !.keyring[ENCRYPTION_KEY_NAME] = m1.t.gen],
                RetPair(oldKey, m1.t.gen))

\* rotateEncryptionKey, lines 97-110
rotateEncryptionKeyCont(m) ==
    LET oldKey == m.t.kret.s IN
    IF ~Truthy(oldKey)
    THEN Finish(Log(m, LogRec("error", "SYSTEM", "Failed to rotate encryption key", "",
                              "No existing encryption key found - cannot rotate", << >>)),
                RetThrow)
    ELSE LET m1 == generateEncryptionKey(m) IN
         Finish(Log(m1, LogRec("info", "SYSTEM",
                               "Generated new encryption key for rotation (not yet stored)",
                               "", "", << >>)),
                RetPair(oldKey, m1.t.gen))

\* confirmKeyRotation, line 124
confirmKeyRotationBegin(m) ==
    KCall([m EXCEPT !.t.phase = 1], "setSecret", ENCRYPTION_KEY_NAME, m.t.arg)

\* confirmKeyRotation, lines 126-132
confirmKeyRotationCont(m) ==
    LET stored == m.t.kret.b IN
    Finish(Log(m, IF stored
                  THEN LogRec("info", "SYSTEM", "Key rotation confirmed - new key stored",
                              "", "", << >>)
                  ELSE LogRec("error", "SYSTEM",
                              "Failed to store new encryption key after rotation",
                              "", "", << >>)),
           RetBool(stored))

\* deleteEncryptionKey, line 149
deleteEncryptionKeyBegin(m) ==
    KCall([m EXCEPT !.t.phase = 1], "deleteSecret", ENCRYPTION_KEY_NAME, Null)

\* deleteEncryptionKey, lines 151-157
deleteEncryptionKeyCont(m) ==
    LET deleted == m.t.kret.b IN
    Finish(Log(m, IF deleted
                  THEN LogRec("warn", "SYSTEM",
                              "Database encryption key deleted - encrypted database is now inaccessible",
                              "", "", << >>)
                  ELSE LogRec("debug", "SYSTEM", "No encryption key found to delete",
                              "", "", << >>)),
           RetBool(deleted))

\* hasEncryptionKey, lines 170-171
hasEncryptionKeyBegin(m) ==
    KCall([m EXCEPT !.t.phase = 1], "hasSecret", ENCRYPTION_KEY_NAME, Null)

\* validateKey, lines 184-199
validateKeyBegin(m) ==
    LET key == m.t.arg
        expectedLength == DB_KEY_LENGTH * 2
    IN IF key.len # expectedLength
       THEN Finish(Log(m, LogNums("warn", "SYSTEM", "Invalid key length",
                                  <<expectedLength, key.len>>)),
                   RetBool(FALSE))
       ELSE IF ~key.hex
       THEN Finish(Log(m, LogRec("warn", "SYSTEM",
                                 "Invalid key format: not a valid hex string",
                                 "", "", << >>)),
                   RetBool(FALSE))
       ELSE Finish(m, RetBool(TRUE))

------------------------------------------------------------------------------
(* Text: a string is the sequence of its characters *)

LowerCase == <<"a", "b", "c", "d", "e", "f", "g", "h", "i", "j", "k", "l", "m", "n", "o", "p", "q", "r", "s", "t", "u", "v", "w", "x", "y", "z">>
UpperCase == <<"A", "B", "C", "D", "E", "F", "G", "H", "I", "J", "K", "L", "M", "N", "O", "P", "Q", "R", "S", "T", "U", "V", "W", "X", "Y", "Z">>
Digit == {"0", "1", "2", "3", "4", "5", "6", "7", "8", "9"}

\* [a-zA-Z0-9]
Alnum == {LowerCase[i] : i \in 1..26} \cup {UpperCase[i] : i \in 1..26} \cup Digit
\* \w
WordChar == Alnum \cup {"_"}
\* \s, and the characters String.prototype.trim removes
WhiteSpace == {" ", "\t", "\n", "\r"}
\* the characters . does not match
LineTerminator == {"\n", "\r"}
\* [a-zA-Z0-9\-._~+\/]
TokenChar == Alnum \cup {"-", ".", "_", "~", "+", "/"}
\* [A-Za-z0-9/+=]
AwsChar == Alnum \cup {"/", "+", "="}
\* [0-9A-Z]
UpperAlnum == Digit \cup {UpperCase[i] : i \in 1..26}
Quote == {"'", "\""}
\* the characters of the texts of the model
Char ==
    WordChar \cup WhiteSpace \cup TokenChar \cup AwsChar \cup Quote
        \cup {":", "<", ">", "[", "]", ",", "(", ")", "{", "}"}
\* [^\s'"]
ValueChar == Char \ (WhiteSpace \cup Quote)

\* the i flag: both cases of a letter compare equal
ToLower(c) ==
    IF \E i \in 1..26 : UpperCase[i] = c
    THEN LowerCase[CHOOSE i \in 1..26 : UpperCase[i] = c]
    ELSE c

\* s[i], or "" beyond the ends of s
At(s, i) == IF i >= 1 /\ i <= Len(s) THEN s[i] ELSE ""

\* \b at the position before s[i]
WordBoundary(s, i) == (At(s, i - 1) \in WordChar) # (At(s, i) \in WordChar)

\* the literal lit stands in s at position i
LitAt(s, i, lit) ==
    /\ i >= 1
    /\ i + Len(lit) - 1 <= Len(s)
    /\ \A k \in 1..Len(lit) : s[i + k - 1] = lit[k]

\* the same under the i flag (lit in lower case)
LitAtCI(s, i, lit) ==
    /\ i >= 1
    /\ i + Len(lit) - 1 <= Len(s)
    /\ \A k \in 1..Len(lit) : ToLower(s[i + k - 1]) = lit[k]

\* how many characters of class stand in s from position i on: a greedy
\* class* whose continuation accepts no character of class
RECURSIVE Span(_, _, _)
Span(s, i, class) == IF At(s, i) \in class THEN 1 + Span(s, i + 1, class) ELSE 0

\* the first position from i on where pred holds, 0 when there is none
FirstFrom(i, hits) ==
    LET later == {j \in hits : j >= i}
    IN IF later = {} THEN 0 ELSE CHOOSE j \in later : \A k \in later : j <= k

\* the element of a set of one element; {F(x) : x \in {e}} is the set of the
\* value of F at the value of e, which is how a step hands its result on
TheOnly(set) == CHOOSE x \in set : TRUE

\* c repeated n times
Rep(c, n) == [i \in 1..n |-> c]

------------------------------------------------------------------------------
(* tag-stripping.ts: the regular expressions *)

MAX_TAG_COUNT == 100
MAX_PATTERN_LENGTH == 200
MAX_CUSTOM_PATTERNS == 50

\* the replacement of a redacted span
REDACTED == <<"[", "R", "E", "D", "A", "C", "T", "E", "D", "]">>

\* A compiled pattern: one of the literals of the source, or a user pattern
\* compiled from its source text.
Pattern(k, src) == [kind |-> k, source |-> src]

\* DEFAULT_REDACTION_PATTERNS, in the order of the array
DEFAULT_REDACTION_PATTERNS ==
    <<Pattern("sk", << >>), Pattern("api", << >>), Pattern("key", << >>),
      Pattern("bearer", << >>), Pattern("akia", << >>), Pattern("awsSecret", << >>),
      Pattern("pem", << >>), Pattern("password", << >>), Pattern("jwt", << >>),
      Pattern("github", << >>), Pattern("generic", << >>)>>

\* /\b<prefix>[a-zA-Z0-9]{20,}/g for the prefixes sk-, api_ and key_
PrefixedKeyEnd(s, j, prefix) ==
    LET a == j + Len(prefix)
        n == Span(s, a, Alnum)
    IN IF WordBoundary(s, j) /\ LitAt(s, j, prefix) /\ n >= 20 THEN a + n ELSE 0

\* /\bBearer\s+[a-zA-Z0-9\-._~+\/]+=*/gi
BearerEnd(s, j) ==
    LET a == j + 6
        ws == Span(s, a, WhiteSpace)
        tk == Span(s, a + ws, TokenChar)
    IN IF WordBoundary(s, j) /\ LitAtCI(s, j, <<"b", "e", "a", "r", "e", "r">>) /\ ws >= 1 /\ tk >= 1
       THEN a + ws + tk + Span(s, a + ws + tk, {"="})
       ELSE 0

\* /\bAKIA[0-9A-Z]{16}\b/g
AkiaEnd(s, j) ==
    IF /\ WordBoundary(s, j)
       /\ LitAt(s, j, <<"A", "K", "I", "A">>)
       /\ \A k \in 4..19 : At(s, j + k) \in UpperAlnum
       /\ WordBoundary(s, j + 20)
    THEN j + 20
    ELSE 0

\* /\b[A-Za-z0-9/+=]{40}\b(?=.*aws)/gi: the lookahead finds aws further on
\* in the line the 40 characters end in
AwsSecretEnd(s, j) ==
    IF /\ WordBoundary(s, j)
       /\ \A k \in 0..39 : At(s, j + k) \in AwsChar
       /\ WordBoundary(s, j + 40)
       /\ \E q \in (j + 40)..Len(s) :
             /\ LitAtCI(s, q, <<"a", "w", "s">>)
             /\ \A r \in (j + 40)..(q - 1) : s[r] \notin LineTerminator
    THEN j + 40
    ELSE 0

\* -----<word>\s+(?:RSA\s+)?PRIVATE\s+KEY----- for the words BEGIN and END
PemLineEnd(s, j, word) ==
    LET a == j + 5 + Len(word)
        b == a + Span(s, a, WhiteSpace)
        rsa == LitAt(s, b, <<"R", "S", "A">>) /\ Span(s, b + 3, WhiteSpace) >= 1
        c == IF rsa THEN b + 3 + Span(s, b + 3, WhiteSpace) ELSE b
        d == c + 7
        e == d + Span(s, d, WhiteSpace)
    IN IF /\ LitAt(s, j, <<"-", "-", "-", "-", "-">> \o word)
          /\ b > a
          /\ LitAt(s, c, <<"P", "R", "I", "V", "A", "T", "E">>)
          /\ e > d
          /\ LitAt(s, e, <<"K", "E", "Y", "-", "-", "-", "-", "-">>)
       THEN e + 8
       ELSE 0

\* /-----BEGIN ...-----[\s\S]*?-----END ...-----/g: up to the first END line
PemEnd(s, j) ==
    LET h == PemLineEnd(s, j, <<"B", "E", "G", "I", "N">>)
        q == IF h = 0 THEN 0
             ELSE FirstFrom(h, {i \in h..Len(s) : PemLineEnd(s, i, <<"E", "N", "D">>) # 0})
    IN IF q = 0 THEN 0 ELSE PemLineEnd(s, q, <<"E", "N", "D">>)

\* /(?:password|passwd|pwd)\s*[=:]\s*['"]?([^\s'"]+)['"]?/gi
PasswordEnd(s, j) ==
    LET l == IF LitAtCI(s, j, <<"p", "a", "s", "s", "w", "o", "r", "d">>) THEN 8
             ELSE IF LitAtCI(s, j, <<"p", "a", "s", "s", "w", "d">>) THEN 6
             ELSE IF LitAtCI(s, j, <<"p", "w", "d">>) THEN 3
             ELSE 0
        a == j + l + Span(s, j + l, WhiteSpace)
        b == a + 1 + Span(s, a + 1, WhiteSpace)
        c == IF At(s, b) \in Quote THEN b + 1 ELSE b
        e == c + Span(s, c, ValueChar)
    IN IF l > 0 /\ At(s, a) \in {"=", ":"} /\ e > c
       THEN IF At(s, e) \in Quote THEN e + 1 ELSE e
       ELSE 0

\* /\beyJ[...]+=*\.eyJ[...]+=*\.[...]+=*/g from part number part on, at
\* position a: the class holds the dot, so a greedy part gives back
\* characters until a dot and the rest of the pattern follow
RECURSIVE JwtPartEnd(_, _, _)
JwtPartEnd(s, a, part) ==
    IF part = 3
    THEN LET n == Span(s, a, TokenChar)
         IN IF n >= 1 THEN a + n + Span(s, a + n, {"="}) ELSE 0
    ELSE LET r == Span(s, a + 3, TokenChar)
             Rest(l) ==
                 LET p == a + 3 + l
                     q == IF l = r THEN p + Span(s, p, {"="}) ELSE p
                 IN IF At(s, q) = "." THEN JwtPartEnd(s, q + 1, part + 1) ELSE 0
             ok == {l \in 1..r : Rest(l) # 0}
         IN IF LitAt(s, a, <<"e", "y", "J">>) /\ ok # {}
            THEN Rest(CHOOSE l \in ok : \A k \in ok : k <= l)
            ELSE 0

JwtEnd(s, j) == IF WordBoundary(s, j) THEN JwtPartEnd(s, j, 1) ELSE 0

\* /\bgh[pousr]_[a-zA-Z0-9]{36,}\b/g
GithubEnd(s, j) ==
    LET n == Span(s, j + 4, Alnum)
    IN IF /\ WordBoundary(s, j)
          /\ LitAt(s, j, <<"g", "h">>)
          /\ At(s, j + 2) \in {"p", "o", "u", "s", "r"}
          /\ At(s, j + 3) = "_"
          /\ n >= 36
          /\ WordBoundary(s, j + 4 + n)
       THEN j + 4 + n
       ELSE 0

\* /\b(?:token|secret|auth)['"]?\s*[=:]\s*['"]?([a-zA-Z0-9\-._~+\/]{20,})['"]?/gi
GenericEnd(s, j) ==
    LET l == IF LitAtCI(s, j, <<"t", "o", "k", "e", "n">>) THEN 5
             ELSE IF LitAtCI(s, j, <<"s", "e", "c", "r", "e", "t">>) THEN 6
             ELSE IF LitAtCI(s, j, <<"a", "u", "t", "h">>) THEN 4
             ELSE 0
        a == IF At(s, j + l) \in Quote THEN j + l + 1 ELSE j + l
        b == a + Span(s, a, WhiteSpace)
        c == b + 1 + Span(s, b + 1, WhiteSpace)
        d == IF At(s, c) \in Quote THEN c + 1 ELSE c
        e == d + Span(s, d, TokenChar)
    IN IF WordBoundary(s, j) /\ l > 0 /\ At(s, b) \in {"=", ":"} /\ e - d >= 20
       THEN IF At(s, e) \in Quote THEN e + 1 ELSE e
       ELSE 0

OpenTag(name) == <<"<">> \o name \o <<">">>
CloseTag(name) == <<"<", "/">> \o name \o <<">">>

\* /<name>[\s\S]*<\/name>/g, the greedy reading: up to the last closing tag
TagEnd_Greedy(s, j, name) ==
    LET h == j + Len(OpenTag(name))
        closes == IF LitAt(s, j, OpenTag(name))
                  THEN {i \in h..Len(s) : LitAt(s, i, CloseTag(name))}
                  ELSE {}
    IN IF closes = {} THEN 0
       ELSE (CHOOSE i \in closes : \A k \in closes : k <= i) + Len(CloseTag(name))

\* /<name>[\s\S]*?<\/name>/g: up to the first closing tag
TagEnd(s, j, name) ==
    LET h == j + Len(OpenTag(name))
        q == IF LitAt(s, j, OpenTag(name))
             THEN FirstFrom(h, {i \in h..Len(s) : LitAt(s, i, CloseTag(name))})
             ELSE 0
    IN IF q = 0 THEN 0 ELSE q + Len(CloseTag(name))

\* the tags of stripTagsInternal, in the order of its passes
TagContext == <<"c", "l", "a", "u", "d", "e", "-", "m", "e", "m", "-", "c", "o", "n", "t", "e", "x", "t">>
TagPrivate == <<"p", "r", "i", "v", "a", "t", "e">>
TagSecret == <<"s", "e", "c", "r", "e", "t">>

\* new RegExp(source, 'g') throws for a group that is not closed; the user
\* patterns of the model are literal texts, or hold an unclosed "("
Compiles(source) ==
    Cardinality({i \in 1..Len(source) : source[i] = "("}) =
        Cardinality({i \in 1..Len(source) : source[i] = ")"})

\* Where the match of pattern p that starts at position j of s ends (the
\* position after its last character), 0 when none starts there.
MatchEnd(p, s, j) ==
    CASE p.kind = "sk" -> PrefixedKeyEnd(s, j, <<"s", "k", "-">>)
      [] p.kind = "api" -> PrefixedKeyEnd(s, j, <<"a", "p", "i", "_">>)
      [] p.kind = "key" -> PrefixedKeyEnd(s, j, <<"k", "e", "y", "_">>)
      [] p.kind = "bearer" -> BearerEnd(s, j)
      [] p.kind = "akia" -> AkiaEnd(s, j)
      [] p.kind = "awsSecret" -> AwsSecretEnd(s, j)
      [] p.kind = "pem" -> PemEnd(s, j)
      [] p.kind = "password" -> PasswordEnd(s, j)
      [] p.kind = "jwt" -> JwtEnd(s, j)
      [] p.kind = "github" -> GithubEnd(s, j)
      [] p.kind = "generic" -> GenericEnd(s, j)
      [] p.kind = "tag" -> TagEnd(s, j, p.source)
      [] p.kind = "user" -> IF LitAt(s, j, p.source) THEN j + Len(p.source) ELSE 0

------------------------------------------------------------------------------
(* tag-stripping.ts: the functions *)

\* String.prototype.match with a g pattern, as replace scans: the matches
\* of p in s from position from on, leftmost first, none overlapping; a
\* sequence of <<start, end>>
RECURSIVE MatchesFrom(_, _, _, _)
MatchesFrom(p, s, from, hits) ==
    LET j == FirstFrom(from, hits)
    IN IF j = 0 THEN << >>
       ELSE TheOnly({<<(<<j, e>>)>> \o MatchesFrom(p, s, e, hits) :
                        e \in {MatchEnd(p, s, j)}})

Matches(p, s) ==
    TheOnly({MatchesFrom(p, s, 1, hits) :
                hits \in {{j \in 1..Len(s) : MatchEnd(p, s, j) # 0}}})

\* the text of s from position from on, each match of ms replaced by with
RECURSIVE Splice(_, _, _, _)
Splice(s, ms, from, with) ==
    IF ms = << >> THEN SubSeq(s, from, Len(s))
    ELSE SubSeq(s, from, ms[1][1] - 1) \o with \o Splice(s, Tail(ms), ms[1][2], with)

\* s.replace(p, with)
Replace(s, p, with) == Splice(s, Matches(p, s), 1, with)

\* String.prototype.trim
Trim(s) ==
    LET keep == {i \in 1..Len(s) : s[i] \notin WhiteSpace}
    IN IF keep = {} THEN << >>
       ELSE SubSeq(s, CHOOSE i \in keep : \A k \in keep : i <= k,
                      CHOOSE i \in keep : \A k \in keep : k <= i)

\* s.split(',') from position from on: the pieces between the commas
RECURSIVE Split(_, _)
Split(s, from) ==
    LET j == FirstFrom(from, {i \in 1..Len(s) : s[i] = ","})
    IN IF j = 0 THEN <<SubSeq(s, from, Len(s))>>
       ELSE <<SubSeq(s, from, j - 1)>> \o Split(s, j + 1)

\* What a caller can pass for content that is not a string. A text is a
\* sequence of characters; a value of another type is the one-element
\* sequence of its name, which no text is.
JsNull == <<"null">>
JsUndefined == <<"undefined">>
JsZero == <<"number 0">>
JsFive == <<"number 5">>
JsFalse == <<"false">>
JsObject == <<"object">>
NonStrings == {JsNull, JsUndefined, JsZero, JsFive, JsFalse, JsObject}

\* !content, for a value that is not a string
Falsy(content) == content \in {JsNull, JsUndefined, JsZero, JsFalse}

\* lines 75-80
countTags(content) ==
    LET Count(name) ==
            Cardinality({j \in 1..Len(content) : LitAt(content, j, OpenTag(name))})
    IN Count(TagPrivate) + Count(TagContext) + Count(TagSecret)

\* a record that carries a text
LogText(l, c, m, e, text) ==
    [lvl |-> l, comp |-> c, msg |-> m, name |-> "", nums |-> << >>, err |-> e,
     strs |-> << >>, texts |-> <<text>>]

\* the loop of lines 90-115 over the patterns it is given
RECURSIVE CompileEach(_)
CompileEach(patterns) ==
    IF patterns = << >> THEN [compiled |-> << >>, log |-> << >>]
    ELSE LET pattern == Head(patterns)
             rest == CompileEach(Tail(patterns))
         IN IF Trim(pattern) = << >> THEN rest
            ELSE IF Len(pattern) > MAX_PATTERN_LENGTH
            THEN [rest EXCEPT !.log =
                     <<LogNums("warn", "SYSTEM", "redaction pattern too long, skipping",
                               <<Len(pattern), MAX_PATTERN_LENGTH>>)>> \o @]
            ELSE IF Compiles(pattern)
            THEN [rest EXCEPT !.compiled = <<Pattern("user", pattern)>> \o @]
            ELSE [rest EXCEPT !.log =
                     <<LogText("warn", "SYSTEM", "invalid redaction pattern, skipping",
                               "Invalid regular expression", pattern)>> \o @]

\* lines 87-118
compileUserPatterns(patterns) ==
    CompileEach(SubSeq(patterns, 1,
                       IF Len(patterns) < MAX_CUSTOM_PATTERNS THEN Len(patterns)
                       ELSE MAX_CUSTOM_PATTERNS))

NonEmpty(s) == Len(s) > 0

\* lines 124-151; loadFromFile returns the defaults when the file cannot be read
getRedactionPatterns ==
    LET customPatterns == CLAUDE_MEM_REDACT_PATTERNS
        pieces == Split(customPatterns, 1)
        userPatterns == SelectSeq([i \in 1..Len(pieces) |-> Trim(pieces[i])], NonEmpty)
        user == compileUserPatterns(userPatterns)
    IN IF Trim(customPatterns) # << >>
       THEN [patterns |-> DEFAULT_REDACTION_PATTERNS \o user.compiled, log |-> user.log]
       ELSE [patterns |-> DEFAULT_REDACTION_PATTERNS, log |-> << >>]

\* lines 172-178: one pattern applied
ApplyPattern(pattern, redacted, count) ==
    TheOnly({[redacted |-> Splice(redacted, matches, 1, REDACTED),
              count |-> count + Len(matches)] :
                matches \in {Matches(pattern, redacted)}})

\* the loop of lines 170-179 from pattern number i on
RECURSIVE ApplyPatterns(_, _, _, _)
ApplyPatterns(patterns, i, redacted, count) ==
    IF i > Len(patterns) THEN [redacted |-> redacted, count |-> count]
    ELSE TheOnly({ApplyPatterns(patterns, i + 1, r.redacted, r.count) :
                     r \in {ApplyPattern(patterns[i], redacted, count)}})

\* a record of lines 183-186 that carried the content
redactedLog_WithContent(count, content) ==
    [LogText("info", "SYSTEM", "secrets redacted from content", "", content)
        EXCEPT !.nums = <<count, Len(content)>>]

\* the record of lines 183-186
redactedLog(count, content) ==
    LogNums("info", "SYSTEM", "secrets redacted from content", <<count, Len(content)>>)

\* lines 158-190
redactSecrets(content) ==
    IF content = << >> \/ Falsy(content)
    THEN [redacted |-> << >>, count |-> 0, log |-> << >>]
    ELSE IF content \in NonStrings
    THEN [redacted |-> content, count |-> 0, log |-> << >>]
    ELSE TheOnly({TheOnly({[redacted |-> r.redacted, count |-> r.count,
                            log |-> got.log \o (IF r.count > 0
                                                THEN <<redactedLog(r.count, content)>>
                                                ELSE << >>)] :
                              r \in {ApplyPatterns(got.patterns, 1, content, 0)}}) :
                     got \in {getRedactionPatterns}})

\* stripTagsInternal as it would be if content over the tag limit were
\* rejected
stripTagsInternal_FailClosed(content) ==
    IF content \in NonStrings THEN [out |-> << >>, log |-> << >>, threw |-> TRUE]
    ELSE IF countTags(content) > MAX_TAG_COUNT
    THEN [out |-> << >>, threw |-> FALSE,
          log |-> <<LogNums("warn", "SYSTEM", "tag count exceeds limit",
                            <<countTags(content), MAX_TAG_COUNT, Len(content)>>)>>]
    ELSE TheOnly({[out |-> Trim(r.redacted), threw |-> FALSE, log |-> r.log] :
                     r \in {redactSecrets(r3) :
                            r3 \in {Replace(r2, Pattern("tag", TagSecret), REDACTED) :
                                    r2 \in {Replace(r1, Pattern("tag", TagPrivate), << >>) :
                                            r1 \in {Replace(content, Pattern("tag", TagContext), << >>)}}}}})

\* stripTagsInternal as it would be with the <private> pass before the
\* <claude-mem-context> pass
stripTagsInternal_PrivateFirst(content) ==
    IF content \in NonStrings THEN [out |-> << >>, log |-> << >>, threw |-> TRUE]
    ELSE
    TheOnly({[out |-> Trim(r.redacted), threw |-> FALSE,
              log |-> (IF tagCount > MAX_TAG_COUNT
                       THEN <<LogNums("warn", "SYSTEM", "tag count exceeds limit",
                                      <<tagCount, MAX_TAG_COUNT, Len(content)>>)>>
                       ELSE << >>) \o r.log] :
             tagCount \in {countTags(content)},
             r \in {redactSecrets(r3) :
                    r3 \in {Replace(r2, Pattern("tag", TagSecret), REDACTED) :
                            r2 \in {Replace(r1, Pattern("tag", TagContext), << >>) :
                                    r1 \in {Replace(content, Pattern("tag", TagPrivate), << >>)}}}}})

\* lines 196-224; content.match of line 76 throws a TypeError when content
\* is not a string
stripTagsInternal(content) ==
    IF content \in NonStrings THEN [out |-> << >>, log |-> << >>, threw |-> TRUE]
    ELSE
    TheOnly({[out |-> Trim(r.redacted), threw |-> FALSE,
              log |-> (IF tagCount > MAX_TAG_COUNT
                       THEN <<LogNums("warn", "SYSTEM", "tag count exceeds limit",
                                      <<tagCount, MAX_TAG_COUNT, Len(content)>>)>>
                       ELSE << >>) \o r.log] :
             tagCount \in {countTags(content)},
             r \in {redactSecrets(r3) :
                    r3 \in {Replace(r2, Pattern("tag", TagSecret), REDACTED) :
                            r2 \in {Replace(r1, Pattern("tag", TagPrivate), << >>) :
                                    r1 \in {Replace(content, Pattern("tag", TagContext), << >>)}}}}})

\* lines 232-234
stripMemoryTagsFromJson(content) == stripTagsInternal(content)

\* lines 242-244
stripMemoryTagsFromPrompt(content) == stripTagsInternal(content)

------------------------------------------------------------------------------
(* SettingsDefaultsManager: migration of the API keys *)

\* value && typeof value === 'string' && value.trim() !== '', line 260
Migratable(value) == Truthy(value) /\ value # Blank

\* migrateSecretsToKeyring, lines 275-286: the write back
migrateSecretsToKeyringEnd(m) ==
    IF m.t.modified
    THEN IF m.settingsJson.writable
         THEN Finish([m EXCEPT !.settingsJson =
                         [exists |-> TRUE, parses |-> TRUE, writable |-> TRUE,
                          data |-> m.t.settings.data, keys |-> m.t.settings.keys]],
                     RetBool(TRUE))
         ELSE Finish(m, RetBool(FALSE))
    ELSE Finish(m, RetBool(TRUE))

\* migrateSecretsToKeyring, lines 258-273: the loop from round i on, up to the
\* next await of setSecret
RECURSIVE migrateSecretsToKeyringLoop(_, _)
migrateSecretsToKeyringLoop(m, i) ==
    IF i > Len(ApiSettings) THEN migrateSecretsToKeyringEnd(m)
    ELSE IF Migratable(m.t.settings.keys[ApiSettings[i]])
    THEN KCall([m EXCEPT !.t.phase = i], "setSecret", ApiSecrets[i],
               m.t.settings.keys[ApiSettings[i]])
    ELSE migrateSecretsToKeyringLoop(m, i + 1)

\* migrateSecretsToKeyring, lines 242-258
migrateSecretsToKeyringBegin(m) ==
    IF ~m.settingsJson.exists THEN Finish(m, RetBool(TRUE))
    ELSE IF ~m.settingsJson.parses THEN Finish(m, RetBool(FALSE))
    ELSE migrateSecretsToKeyringLoop(
             [m EXCEPT !.t.settings = [data |-> m.settingsJson.data,
                                       keys |-> m.settingsJson.keys],
                       !.t.modified = FALSE], 1)

\* a migration that removes the key whatever setSecret returned
migrateSecretsToKeyringCont_DeleteAlways(m) ==
    migrateSecretsToKeyringLoop(
        [m EXCEPT !.t.settings.keys[ApiSettings[m.t.phase]] = Null,
                  !.t.modified = TRUE], m.t.phase + 1)

\* migrateSecretsToKeyring, lines 262-271: setSecret has returned
migrateSecretsToKeyringCont(m) ==
    IF m.t.kret = RetBool(TRUE)
    THEN migrateSecretsToKeyringLoop(
             [m EXCEPT !.t.settings.keys[ApiSettings[m.t.phase]] = Null,
                       !.t.modified = TRUE], m.t.phase + 1)
    ELSE migrateSecretsToKeyringLoop(m, m.t.phase + 1)

------------------------------------------------------------------------------
(* One uninterrupted run of a task *)

KeyringMethods == {"setSecret", "getSecret", "deleteSecret", "hasSecret", "isKeytarAvailable"}

\* the synchronous start of a public method
Begin(m) ==
    CASE m.t.op \in KeyringMethods -> KCall(m, m.t.op, m.t.kname, m.t.arg)
      [] m.t.op = "getOrCreateToken" -> getOrCreateTokenBegin(m)
      [] m.t.op = "validateToken" -> validateTokenBegin(m)
      [] m.t.op = "regenerateToken" -> regenerateTokenBegin(m)
      [] m.t.op = "getOrCreateEncryptionKey" -> getOrCreateEncryptionKeyBegin(m)
      [] m.t.op = "rotateEncryptionKey" -> rotateEncryptionKeyBegin(m)
      [] m.t.op = "confirmKeyRotation" -> confirmKeyRotationBegin(m)
      [] m.t.op = "deleteEncryptionKey" -> deleteEncryptionKeyBegin(m)
      [] m.t.op = "hasEncryptionKey" -> hasEncryptionKeyBegin(m)
      [] m.t.op = "validateKey" -> validateKeyBegin(m)
      [] m.t.op = "migrateSecretsToKeyring" -> migrateSecretsToKeyringBegin(m)

\* the public method resumes after the keyring method it awaited has returned
Cont(m) ==
    CASE m.t.op \in KeyringMethods -> Finish(m, m.t.kret)
      [] m.t.op = "getOrCreateToken" -> getOrCreateTokenCont(m)
      [] m.t.op = "validateToken" -> validateTokenCont(m)
      [] m.t.op = "regenerateToken" -> regenerateTokenCont(m)
      [] m.t.op = "getOrCreateEncryptionKey" -> getOrCreateEncryptionKeyCont(m)
      [] m.t.op = "rotateEncryptionKey" -> rotateEncryptionKeyCont(m)
      [] m.t.op = "confirmKeyRotation" -> confirmKeyRotationCont(m)
      [] m.t.op = "deleteEncryptionKey" -> deleteEncryptionKeyCont(m)
      [] m.t.op = "hasEncryptionKey" -> Finish(m, m.t.kret)
      [] m.t.op = "migrateSecretsToKeyring" -> migrateSecretsToKeyringCont(m)

\* run until the task awaits I/O or its public method has returned
RECURSIVE Run(_)
Run(m) == IF m.t.pc = "kret" THEN Run(Cont(m)) ELSE m

\* the state after the run
Commit(t, m) ==
    /\ tasks' = [tasks EXCEPT ![t] = m.t]
    /\ keyring' = m.keyring
    /\ initialized' = m.initialized
    /\ keytar' = m.keytar
    /\ keytarAvailable' = m.keytarAvailable
    /\ nextRand' = m.nextRand
    /\ settingsJson' = m.settingsJson
    /\ UNCHANGED <<env, keytarInstalled>>
    /\ UNCHANGED redactVars
    /\ UNCHANGED retentionVars

------------------------------------------------------------------------------
(* Callers *)

\* README "Key Rotation Process", preceded and followed by the read of the key
RotationFlow ==
    <<"getOrCreateEncryptionKey", "rotateEncryptionKey", "confirmKeyRotation",
      "getOrCreateEncryptionKey">>

\* a client obtains the token, presents it, regenerates it, presents the old
\* token and then the new one
TokenFlow ==
    <<"getOrCreateToken", "validateToken", "regenerateToken", "validateToken",
      "validateToken">>

Script(f) == IF f = "rotation" THEN RotationFlow ELSE TokenFlow

\* the calls of the flow made so far, the one that has just returned included
Made(tk) ==
    Append(tk.hist, [op |-> tk.op, arg |-> tk.arg, ret |-> tk.ret, log |-> tk.log])

\* the argument call number k of flow f takes, given the calls made
FlowArg(f, k, made) ==
    IF f = "rotation"
    THEN IF k = 3 THEN made[2].ret.s2 ELSE Null
    ELSE CASE k = 2 -> made[1].ret.s
           [] k = 4 -> made[1].ret.s
           [] k = 5 -> made[3].ret.s
           [] OTHER -> Null

\* the call (op, arg) is the next call of the flow the task is in
Continues(tk, op, arg) ==
    LET k == Len(tk.hist) + 2 IN
    /\ tk.pc = "done"
    /\ tk.flow # "none"
    /\ tk.ret.kind # "throw"
    /\ k <= Len(Script(tk.flow))
    /\ Script(tk.flow)[k] = op
    /\ arg = FlowArg(tk.flow, k, Made(tk))

\* the flow and the history the task is in once it makes the call (op, arg)
FlowAfter(tk, op, arg) ==
    IF Continues(tk, op, arg)
    THEN [flow |-> tk.flow, hist |-> Made(tk)]
    ELSE [flow |-> CASE op = RotationFlow[1] -> "rotation"
                     [] op = TokenFlow[1] -> "token"
                     [] OTHER -> "none",
          hist |-> << >>]

\* the strings a caller has been handed by its flow
Known(tk) ==
    LET made == IF tk.pc = "done" THEN Made(tk) ELSE tk.hist IN
    {made[i].ret.s : i \in 1..Len(made)} \cup {made[i].ret.s2 : i \in 1..Len(made)}

NonHex64 == Str(7, 64, FALSE)

\* the arguments a caller may pass
Candidates(tk) == {Empty, Wrong64, Short5, NonHex64, StoredToken, EnvToken} \cup Known(tk)

\* methods that draw a random string, and those that may still draw one
Generating ==
    {"getOrCreateToken", "regenerateToken", "getOrCreateEncryptionKey",
     "rotateEncryptionKey"}

MayGenerate(tk) ==
    tk.op \in Generating /\ tk.pc \in {"import", "io"} /\ tk.gen = Null

\* the bound on random strings leaves room for the calls in flight
GenBudget(op) ==
    op \in Generating =>
        nextRand + Cardinality({u \in Tasks : MayGenerate(tasks[u])}) < MaxGen

\* task t awaits no call
Ready(t) == tasks[t].pc \in {"idle", "done"}

\* the rotation task t has been handed and has not yet seen confirmed:
\* rotateEncryptionKey has returned {oldKey, newKey} to it, and the
\* confirmKeyRotation(newKey) that follows, if called, has not returned
PendingRotation(t) ==
    LET tk == tasks[t] IN
    IF tk.op = "rotateEncryptionKey" /\ tk.pc = "done" /\ tk.ret.kind = "pair"
    THEN [on |-> TRUE, oldKey |-> tk.ret.s, newKey |-> tk.ret.s2]
    ELSE IF /\ tk.op = "confirmKeyRotation" /\ tk.pc \notin {"idle", "done"}
            /\ tk.flow = "rotation" /\ Len(tk.hist) = 2
    THEN [on |-> TRUE, oldKey |-> tk.hist[2].ret.s, newKey |-> tk.hist[2].ret.s2]
    ELSE [on |-> FALSE, oldKey |-> Null, newKey |-> Null]

\* the new keys of the rotations of the other tasks pending as t makes a call
PendingElsewhere(t) ==
    {PendingRotation(u).newKey : u \in {v \in Tasks \ {t} : PendingRotation(v).on}}

\* task t calls a public method
Call(t, op, key, arg) ==
    /\ GenBudget(op)
    /\ LET fl == FlowAfter(tasks[t], op, arg)
           tk == [IdleTask EXCEPT !.op = op, !.kname = key, !.arg = arg,
                                  !.flow = fl.flow, !.hist = fl.hist,
                                  !.during = PendingElsewhere(t)]
       IN Commit(t, Run(Begin([Machine(t) EXCEPT !.t = tk])))

------------------------------------------------------------------------------
(* Actions: the public methods *)

setSecret(t) ==
    /\ Ready(t)
    /\ \E key \in SecretKey, value \in {Empty, Wrong64} :
          Call(t, "setSecret", key, value)

getSecret(t) ==
    /\ Ready(t)
    /\ \E key \in SecretKey : Call(t, "getSecret", key, Null)

deleteSecret(t) ==
    /\ Ready(t)
    /\ \E key \in SecretKey : Call(t, "deleteSecret", key, Null)

hasSecret(t) ==
    /\ Ready(t)
    /\ \E key \in SecretKey : Call(t, "hasSecret", key, Null)

isKeytarAvailable(t) ==
    /\ Ready(t)
    /\ Call(t, "isKeytarAvailable", "none", Null)

getOrCreateToken(t) ==
    /\ Ready(t)
    /\ Call(t, "getOrCreateToken", "none", Null)

validateToken(t) ==
    /\ Ready(t)
    /\ \E token \in Candidates(tasks[t]) :
          Call(t, "validateToken", "none", token)

regenerateToken(t) ==
    /\ Ready(t)
    /\ Call(t, "regenerateToken", "none", Null)

getOrCreateEncryptionKey(t) ==
    /\ Ready(t)
    /\ Call(t, "getOrCreateEncryptionKey", "none", Null)

rotateEncryptionKey(t) ==
    /\ Ready(t)
    /\ Call(t, "rotateEncryptionKey", "none", Null)

confirmKeyRotation(t) ==
    /\ Ready(t)
    /\ \E newKey \in ({Empty, Wrong64} \cup Known(tasks[t])) \ {Null} :
          Call(t, "confirmKeyRotation", "none", newKey)

deleteEncryptionKey(t) ==
    /\ Ready(t)
    /\ Call(t, "deleteEncryptionKey", "none", Null)

hasEncryptionKey(t) ==
    /\ Ready(t)
    /\ Call(t, "hasEncryptionKey", "none", Null)

validateKey(t) ==
    /\ Ready(t)
    /\ \E key \in Candidates(tasks[t]) \ {Null} :
          Call(t, "validateKey", "none", key)

migrateSecretsToKeyring(t) ==
    /\ Ready(t)
    /\ Call(t, "migrateSecretsToKeyring", "none", Null)

(* Actions: I/O completions *)

\* the dynamic import of keytar awaited by initialize() settles
ImportSettled(t) ==
    /\ tasks[t].pc = "import"
    /\ Commit(t, Run(KBody(initializeDone(Machine(t)))))

\* the keytar call a keyring method awaits resolves
KeytarResolved(t) ==
    /\ tasks[t].pc = "io"
    /\ Commit(t, Run(KDone(Machine(t), TRUE)))

\* the keytar call a keyring method awaits rejects
KeytarRejected(t) ==
    /\ tasks[t].pc = "io"
    /\ Commit(t, Run(KDone(Machine(t), FALSE)))

------------------------------------------------------------------------------
(* SettingsDefaultsManager: the settings file *)

\* settings.json holding the settings `data` and the API keys `keys`; writable:
\* writeFileSync on it succeeds; parses: JSON.parse accepts its content
SettingsFile(data, keys, w) ==
    [exists |-> TRUE, parses |-> TRUE, writable |-> w, data |-> data, keys |-> keys]

\* no settings.json; writable: the file can be created
NoSettingsFile(w) ==
    [exists |-> FALSE, parses |-> FALSE, writable |-> w, data |-> NoSettings,
     keys |-> NoApiKeys]

\* loadFromFile, lines 149-199: the settings returned and the file left behind.
\* Only the keys of DEFAULTS are returned.
loadFromFile(f) ==
    IF ~f.exists
    THEN [result |-> DEFAULTS,
          file |-> IF f.writable THEN SettingsFile(DEFAULTS, NoApiKeys, TRUE) ELSE f]
    ELSE IF ~f.parses
    THEN [result |-> DEFAULTS, file |-> f]
    ELSE [result |-> [k \in DOMAIN DEFAULTS |->
                        IF f.data[k] # JsUndefined THEN f.data[k] ELSE DEFAULTS[k]],
          file |-> f]

------------------------------------------------------------------------------
(* Numbers and their conversions *)

Number(n) == [nan |-> FALSE, n |-> n]
NaN == [nan |-> TRUE, n |-> 0]

DigitChars == <<"0", "1", "2", "3", "4", "5", "6", "7", "8", "9">>
DigitValue(c) == (CHOOSE i \in 1..10 : DigitChars[i] = c) - 1

\* the value of the digits of s from position i on, up to the first other
\* character, appended to the digits read so far
RECURSIVE ParseDigits(_, _, _)
ParseDigits(s, i, acc) ==
    IF i > Len(s) \/ s[i] \notin Digit THEN acc
    ELSE ParseDigits(s, i + 1, acc * 10 + DigitValue(s[i]))

\* parseInt(s, 10): leading white space is skipped, a sign is read, then the
\* digits up to the first other character; NaN when there is no digit
parseInt(s) ==
    LET blanks == {i \in 1..Len(s) : \A j \in 1..i : s[j] \in WhiteSpace}
        first == Cardinality(blanks) + 1
        signed == first <= Len(s) /\ s[first] \in {"-", "+"}
        start == IF signed THEN first + 1 ELSE first
    IN IF start > Len(s) \/ s[start] \notin Digit THEN NaN
       ELSE IF signed /\ s[first] = "-" THEN Number(0 - ParseDigits(s, start, 0))
       ELSE Number(ParseDigits(s, start, 0))

\* x || y on numbers: NaN and 0 are falsy
OrElse(x, y) == IF x.nan \/ x.n = 0 THEN y ELSE x.n

\* n.toString() of an integer
RECURSIVE DecimalDigits(_)
DecimalDigits(n) ==
    IF n < 10 THEN <<DigitChars[n + 1]>>
    ELSE DecimalDigits(n \div 10) \o <<DigitChars[(n % 10) + 1]>>

toString(n) == IF n < 0 THEN <<"-">> \o DecimalDigits(0 - n) ELSE DecimalDigits(n)

------------------------------------------------------------------------------
(* RetentionManager *)

\* Time is counted in days: a timestamp is the number of the day it falls in,
\* and a cutoff, which getCutoffDate sets to the start of a day, is the number
\* of that day.  A row is older than the cutoff when its day is before it.

\* new Date(): the day the process runs in
Today == 1000

\* getRetentionSettings, lines 50-64
getRetentionSettings(f) ==
    LET settings == loadFromFile(f).result IN
    [enabled |-> settings.CLAUDE_MEM_RETENTION_ENABLED = TrueText,
     retentionDays |-> OrElse(parseInt(settings.CLAUDE_MEM_RETENTION_DAYS), 90),
     archiveBeforeDelete |-> settings.CLAUDE_MEM_ARCHIVE_BEFORE_DELETE = TrueText]

\* getCutoffDate, lines 69-74
getCutoffDate(retentionDays) == Today - retentionDays

\* WHERE created_at_epoch < ?
Older(rows, cutoffEpoch) == {row \in rows : row.created_at_epoch < cutoffEpoch}

NoStats ==
    [totalObservations |-> 0, totalSummaries |-> 0, totalPrompts |-> 0,
     observationsOlderThanRetention |-> 0, summariesOlderThanRetention |-> 0,
     promptsOlderThanRetention |-> 0]

\* a call of RetentionManager that has not been made
IdleCleanup ==
    [op |-> "none", pc |-> "idle", loaded |-> DEFAULTS,
     settings |-> [enabled |-> FALSE, retentionDays |-> 0, archiveBeforeDelete |-> FALSE],
     cutoffDate |-> 0, stats |-> NoStats, archivePath |-> << >>, rejected |-> FALSE,
     deleted |-> {}, log |-> << >>, ret |-> "none"]

\* What one uninterrupted run of a call reads and writes: the call c, the
\* settings file and the database.
Retention(t) == [c |-> cleanups[t], file |-> settingsJson, db |-> db]

RLog(r, msg) == [r EXCEPT !.c.log = Append(@, msg)]

\* the call returns to its caller
Returned(r, v) == [r EXCEPT !.c.pc = "done", !.c.ret = v]

\* the call awaits the promise of the async method it has just called
Awaits(r, what) == [r EXCEPT !.c.pc = what]

\* the settings file after the loadFromFile of getRetentionSettings
Loaded(r) == [r EXCEPT !.file = loadFromFile(r.file).file]

\* getRetentionStats, lines 80-137
getRetentionStats(r) ==
    LET settings == getRetentionSettings(r.file)
        cutoffEpoch == IF settings.retentionDays > 0
                       THEN getCutoffDate(settings.retentionDays) ELSE 0
        count == settings.enabled /\ settings.retentionDays > 0
        older(rows) == IF count THEN Cardinality(Older(rows, cutoffEpoch)) ELSE 0
    IN [Loaded(r) EXCEPT !.c.stats =
           [totalObservations |-> Cardinality(r.db.observations),
            totalSummaries |-> Cardinality(r.db.session_summaries),
            totalPrompts |-> Cardinality(r.db.user_prompts),
            observationsOlderThanRetention |-> older(r.db.observations),
            summariesOlderThanRetention |-> older(r.db.session_summaries),
            promptsOlderThanRetention |-> older(r.db.user_prompts)]]

\* archiveOldData, lines 143-226.  The path returned is null (<< >>) or names
\* the file written, here the data it holds.
archiveOldData(r) ==
    LET cutoffEpoch == r.c.cutoffDate
        settings == getRetentionSettings(r.file)
        oldObservations == Older(r.db.observations, cutoffEpoch)
        oldSummaries == Older(r.db.session_summaries, cutoffEpoch)
        oldPrompts == Older(r.db.user_prompts, cutoffEpoch)
        oldSessionIds == {row.memory_session_id : row \in oldObservations \cup oldSummaries}
        oldSessions == {s \in r.db.sdk_sessions : s.memory_session_id \in oldSessionIds}
        archiveData == [retentionDays |-> settings.retentionDays,
                        cutoffDate |-> cutoffEpoch,
                        sessions |-> oldSessions, observations |-> oldObservations,
                        summaries |-> oldSummaries, prompts |-> oldPrompts]
        r1 == [Loaded(r) EXCEPT !.c.archivePath = << >>]
    IN IF oldObservations = {} /\ oldSummaries = {} /\ oldPrompts = {}
       THEN RLog(r1, "No data to archive")
       ELSE IF ~r.db.archiveWritable
       THEN RLog(r1, "Failed to archive old data")
       ELSE RLog([r1 EXCEPT !.db.archives = @ \cup {archiveData},
                            !.c.archivePath = <<archiveData>>],
                 "Data archived successfully")

\* the sessions the last statement of deleteOldData removes, lines 257-266
EmptiedSessions(d, cutoffEpoch) ==
    {s \in d.sdk_sessions :
        /\ s.started_at_epoch < cutoffEpoch
        /\ ~\E o \in d.observations : o.memory_session_id = s.memory_session_id
        /\ ~\E ss \in d.session_summaries : ss.memory_session_id = s.memory_session_id
        /\ ~\E up \in d.user_prompts : up.content_session_id = s.content_session_id}

\* deleteOldData, lines 232-294: the transaction commits, or a statement
\* fails, the transaction is rolled back and the error is thrown
deleteOldData(r) ==
    LET cutoffEpoch == r.c.cutoffDate
        d1 == [r.db EXCEPT
                 !.observations = @ \ Older(@, cutoffEpoch),
                 !.session_summaries = @ \ Older(@, cutoffEpoch),
                 !.user_prompts = @ \ Older(@, cutoffEpoch)]
        d2 == [d1 EXCEPT !.sdk_sessions = @ \ EmptiedSessions(d1, cutoffEpoch)]
    IN IF r.db.locked
       THEN RLog([r EXCEPT !.c.rejected = TRUE], "Failed to delete old data")
       ELSE RLog([r EXCEPT !.db = d2,
                           !.c.deleted = (r.db.observations \ d2.observations)
                                         \cup (r.db.session_summaries \ d2.session_summaries)
                                         \cup (r.db.user_prompts \ d2.user_prompts)
                                         \cup (r.db.sdk_sessions \ d2.sdk_sessions)],
                 "Old data deleted successfully")

\* runCleanup, lines 301-324: up to the await of getRetentionStats
runCleanupBegin(r) ==
    LET settings == getRetentionSettings(r.file)
        r1 == [Loaded(r) EXCEPT !.c.loaded = loadFromFile(r.file).result,
                                !.c.settings = settings]
    IN IF ~settings.enabled
       THEN Returned(RLog(r1, "Retention cleanup skipped (disabled in settings)"),
                     "undefined")
       ELSE IF settings.retentionDays = 0
       THEN Returned(RLog(r1, "Retention cleanup skipped (retention set to forever)"),
                     "undefined")
       ELSE Awaits(getRetentionStats(
                       RLog([r1 EXCEPT !.c.cutoffDate =
                                          getCutoffDate(settings.retentionDays)],
                            "Running retention cleanup")),
                   "statsBefore")

\* runCleanup, lines 324-348: getRetentionStats has returned
runCleanupStats(r) ==
    IF /\ r.c.stats.observationsOlderThanRetention = 0
       /\ r.c.stats.summariesOlderThanRetention = 0
       /\ r.c.stats.promptsOlderThanRetention = 0
    THEN Returned(RLog(r, "No old data to clean up"), "undefined")
    ELSE IF r.c.settings.archiveBeforeDelete
    THEN Awaits(archiveOldData(r), "archivePath")
    ELSE Awaits(deleteOldData(r), "deleteResult")

\* runCleanup that deletes whatever archiveOldData returned
runCleanupArchived_DeleteAnyway(r) == Awaits(deleteOldData(r), "deleteResult")

\* runCleanup, lines 340-348: archiveOldData has returned
runCleanupArchived(r) ==
    IF r.c.archivePath = << >>
    THEN Returned(RLog(r, "Archiving failed, skipping deletion for safety"), "undefined")
    ELSE Awaits(deleteOldData(r), "deleteResult")

\* runCleanup, lines 348-362: deleteOldData has returned or thrown
runCleanupDeleted(r) ==
    IF r.c.rejected
    THEN Returned(RLog(r, "Retention cleanup failed"), "undefined")
    ELSE Returned(RLog(r, "Retention cleanup completed"), "undefined")

\* runCleanup resumes after an await
runCleanupCont(r) ==
    CASE r.c.pc = "statsBefore" -> runCleanupStats(r)
      [] r.c.pc = "archivePath" -> runCleanupArchived(r)
      [] r.c.pc = "deleteResult" -> runCleanupDeleted(r)

\* setRetentionDays, lines 369-384
setRetentionDays(r, days) ==
    LET settings == [loadFromFile(r.file).result EXCEPT
                        !.CLAUDE_MEM_RETENTION_DAYS = toString(days)]
    IN IF Loaded(r).file.writable
       THEN Returned(RLog([r EXCEPT !.file = SettingsFile(settings, NoApiKeys, TRUE)],
                          "Retention days updated"),
                     "true")
       ELSE Returned(RLog(Loaded(r), "Failed to update retention days"), "false")

\* the state after the run
CommitRetention(t, r) ==
    /\ cleanups' = [cleanups EXCEPT ![t] = r.c]
    /\ settingsJson' = r.file
    /\ db' = r.db
    /\ UNCHANGED credVars
    /\ UNCHANGED redactVars

\* task t calls op
Called(t, op) == [Retention(t) EXCEPT !.c = [IdleCleanup EXCEPT !.op = op]]

\* the arguments of setRetentionDays
RetentionDays == {0, 30}

(* Actions: RetentionManager *)

RunCleanup(t) ==
    /\ cleanups[t].pc \in {"idle", "done"}
    /\ CommitRetention(t, runCleanupBegin(Called(t, "runCleanup")))

\* the promise runCleanup awaits has settled
CleanupResumes(t) ==
    /\ cleanups[t].pc \in {"statsBefore", "archivePath", "deleteResult"}
    /\ CommitRetention(t, runCleanupCont(Retention(t)))

GetRetentionStats(t) ==
    /\ cleanups[t].pc \in {"idle", "done"}
    /\ CommitRetention(t, Returned(getRetentionStats(Called(t, "getRetentionStats")),
                                   "stats"))

SetRetentionDays(t) ==
    /\ cleanups[t].pc \in {"idle", "done"}
    /\ \E days \in RetentionDays :
          CommitRetention(t, setRetentionDays(Called(t, "setRetentionDays"), days))

------------------------------------------------------------------------------
(* The data at hand *)

Observation(id, m, day) == [id |-> id, memory_session_id |-> m, created_at_epoch |-> day]
Prompt(id, c, day) == [id |-> id, content_session_id |-> c, created_at_epoch |-> day]
Session(id, m, c, day) ==
    [id |-> id, memory_session_id |-> m, content_session_id |-> c,
     started_at_epoch |-> day]

\* a session of 100 days ago and one of 50 days ago, and their rows
Sessions ==
    {Session(1, "m1", "c1", Today - 100), Session(2, "m2", "c2", Today - 50)}
Observations ==
    {Observation(1, "m1", Today - 100), Observation(2, "m2", Today - 50)}
Summaries == {Observation(3, "m1", Today - 100)}
Prompts == {Prompt(4, "c1", Today - 100), Prompt(5, "c2", Today - 50)}

\* no rows, no archive
NoData ==
    [observations |-> {}, session_summaries |-> {}, user_prompts |-> {},
     sdk_sessions |-> {}, archives |-> {}, locked |-> FALSE, archiveWritable |-> TRUE]

\* values of CLAUDE_MEM_RETENTION_DAYS in the file
DaysSettings == {JsUndefined, <<"0">>, <<"3", "0">>, <<"-", "5">>, <<"a", "l", "l">>}

\* the retention manager is not in use
NoRetention ==
    /\ settingsJson = NoSettingsFile(TRUE)
    /\ db = NoData
    /\ cleanups = [t \in Tasks |-> IdleCleanup]

------------------------------------------------------------------------------
(* Specification *)

\* the redaction engine has not been called: content is the text at hand
NoCall(content) ==
    [op |-> "none", input |-> << >>, output |-> content, count |-> 0, log |-> << >>,
     threw |-> FALSE]

Init ==
    /\ NoRetention
    /\ tasks = [t \in Tasks |-> IdleTask]
    /\ keyring \in {[k \in SecretKey |-> IF k = ENCRYPTION_KEY_NAME THEN a ELSE b] :
                      a \in {Null, Empty, StoredKey}, b \in {Null, StoredToken}}
    /\ env \in {[k \in SecretKey |-> IF k = ENCRYPTION_KEY_NAME THEN a ELSE b] :
                  a \in {Null, EnvKey}, b \in {Null, Empty, EnvToken}}
    /\ keytarInstalled \in BOOLEAN
    /\ initialized = FALSE
    /\ keytar = "null"
    /\ keytarAvailable = FALSE
    /\ nextRand = 0
    /\ CLAUDE_MEM_REDACT_PATTERNS = << >>
    /\ san = NoCall(<< >>)

Step(t) ==
    \/ setSecret(t)
    \/ getSecret(t)
    \/ deleteSecret(t)
    \/ hasSecret(t)
    \/ isKeytarAvailable(t)
    \/ getOrCreateToken(t)
    \/ validateToken(t)
    \/ regenerateToken(t)
    \/ getOrCreateEncryptionKey(t)
    \/ rotateEncryptionKey(t)
    \/ confirmKeyRotation(t)
    \/ deleteEncryptionKey(t)
    \/ hasEncryptionKey(t)
    \/ validateKey(t)
    \/ ImportSettled(t)
    \/ KeytarResolved(t)
    \/ KeytarRejected(t)

\* one caller: no two calls overlap
Caller == "t1"

Next == Step(Caller)

Spec == Init /\ [][Next]_vars

\* Two callers around the encryption key: their calls overlap at every await.
InitRotation ==
    /\ NoRetention
    /\ tasks = [t \in Tasks |-> IdleTask]
    /\ keyring \in {[k \in SecretKey |-> IF k = ENCRYPTION_KEY_NAME THEN a ELSE Null] :
                      a \in {Null, StoredKey}}
    /\ env \in {[k \in SecretKey |-> IF k = ENCRYPTION_KEY_NAME THEN a ELSE Null] :
                  a \in {Null, EnvKey}}
    /\ keytarInstalled \in BOOLEAN
    /\ initialized = FALSE
    /\ keytar = "null"
    /\ keytarAvailable = FALSE
    /\ nextRand = 0
    /\ CLAUDE_MEM_REDACT_PATTERNS = << >>
    /\ san = NoCall(<< >>)

\* one task rotates the key, the other reads it
Rotator == "t1"
Reader == "t2"

RotationStep(t) ==
    \/ t = Reader /\ getSecret(t)
    \/ getOrCreateEncryptionKey(t)
    \/ t = Rotator /\ rotateEncryptionKey(t)
    \/ t = Rotator /\ confirmKeyRotation(t)
    \/ ImportSettled(t)
    \/ KeytarResolved(t)
    \/ KeytarRejected(t)

NextRotation == \E t \in Tasks : RotationStep(t)

SpecRotation == InitRotation /\ [][NextRotation]_vars

------------------------------------------------------------------------------
(* The credential store called by two tasks *)

\* Two callers of the KeyringManager singleton: a call of one may start while
\* a call of the other awaits the import of keytar or a keytar call.
InitProbe ==
    /\ NoRetention
    /\ tasks = [t \in Tasks |-> IdleTask]
    /\ \E stored \in BOOLEAN :
          keyring = [k \in SecretKey |->
                       IF ~stored THEN Null
                       ELSE IF k = ENCRYPTION_KEY_NAME THEN StoredKey ELSE StoredToken]
    /\ \E set \in BOOLEAN :
          env = [k \in SecretKey |->
                   IF ~set THEN Null
                   ELSE IF k = ENCRYPTION_KEY_NAME THEN EnvKey ELSE EnvToken]
    /\ keytarInstalled \in BOOLEAN
    /\ initialized = FALSE
    /\ keytar = "null"
    /\ keytarAvailable = FALSE
    /\ nextRand = 0
    /\ CLAUDE_MEM_REDACT_PATTERNS = << >>
    /\ san = NoCall(<< >>)

ProbeStep(t) ==
    \/ setSecret(t)
    \/ getSecret(t)
    \/ deleteSecret(t)
    \/ hasSecret(t)
    \/ isKeytarAvailable(t)
    \/ ImportSettled(t)
    \/ KeytarResolved(t)
    \/ KeytarRejected(t)

NextProbe == \E t \in Tasks : ProbeStep(t)

SpecProbe == InitProbe /\ [][NextProbe]_vars

------------------------------------------------------------------------------
(* The encryption key found in any form *)

\* what the keyring or the environment may hold under DB_ENCRYPTION_KEY before
\* the process starts: nothing, a key, a text that is too short, a text of
\* 64 characters that are not all hex digits
FoundKeys == {Null, StoredKey, Short5, NonHex64}

InitKey ==
    /\ NoRetention
    /\ tasks = [t \in Tasks |-> IdleTask]
    /\ \E a \in FoundKeys :
          keyring = [k \in SecretKey |-> IF k = ENCRYPTION_KEY_NAME THEN a ELSE Null]
    /\ \E a \in FoundKeys :
          env = [k \in SecretKey |-> IF k = ENCRYPTION_KEY_NAME THEN a ELSE Null]
    /\ keytarInstalled \in BOOLEAN
    /\ initialized = FALSE
    /\ keytar = "null"
    /\ keytarAvailable = FALSE
    /\ nextRand = 0
    /\ CLAUDE_MEM_REDACT_PATTERNS = << >>
    /\ san = NoCall(<< >>)

KeyStep(t) ==
    \/ getOrCreateEncryptionKey(t)
    \/ validateKey(t)
    \/ ImportSettled(t)
    \/ KeytarResolved(t)
    \/ KeytarRejected(t)

NextKey == KeyStep(Caller)

SpecKey == InitKey /\ [][NextKey]_vars

------------------------------------------------------------------------------
(* The redaction engine on its own *)

\* pieces of text the contents are put together from
Fragments ==
    {<< >>,
     <<" ", "h", "i", " ">>,
     Rep("A", 40),
     <<" ", "p", "w", "d", "\n", "=", "x", " ", "a", "w", "s">>,
     <<"<", "c", "l", "a", "u", "d", "e", "-", "<", "p", "r", "i", "v", "a", "t", "e", ">", "x", "<", "/", "p", "r", "i", "v", "a", "t", "e", ">">>,
     <<"m", "e", "m", "-", "c", "o", "n", "t", "e", "x", "t", ">", "s", "<", "/", "c", "l", "a", "u", "d", "e", "-", "m", "e", "m", "-", "c", "o", "n", "t", "e", "x", "t", ">">>,
     <<"<", "s", "e", "c", "r", "e", "t", ">", "k", "<", "/", "s", "e", "c", "r", "e", "t", ">">>,
     <<"s", "k", "-">> \o Rep("a", 20),
     <<"<", "p", "r", "i", "v", "a", "t", "e", ">">>,
     <<"B", "e", "a", "r", "e", "r", " ", "a", "b", "c", ".", "d", "e", "f", "=">>,
     <<"p", "w", "d", "=">>,
     REDACTED}

Contents == {a \o b : a \in Fragments, b \in Fragments}

\* values of the setting: none, and a list with a pattern that does not compile
PatternSettings == {<< >>, <<"(", "x", ",", " ", "h", "i">>}

\* a call of the engine on the text at hand; what it returns is the text at
\* hand of the next call
Sanitized(op, content, output, count, log) ==
    /\ san' = [op |-> op, input |-> content, output |-> output, count |-> count,
               log |-> log, threw |-> FALSE]
    /\ UNCHANGED <<credVars, CLAUDE_MEM_REDACT_PATTERNS, settingsJson, retentionVars>>

\* a call of the engine that threw: nothing is returned, and the caller is
\* left with the content it had
Threw(op, content) ==
    /\ san' = [op |-> op, input |-> content, output |-> content, count |-> 0,
               log |-> << >>, threw |-> TRUE]
    /\ UNCHANGED <<credVars, CLAUDE_MEM_REDACT_PATTERNS, settingsJson, retentionVars>>

RedactSecrets ==
    \E r \in {redactSecrets(san.output)} :
        Sanitized("redactSecrets", san.output, r.redacted, r.count, r.log)

StripMemoryTagsFromJson ==
    \E r \in {stripMemoryTagsFromJson(san.output)} :
        IF r.threw THEN Threw("stripMemoryTagsFromJson", san.output)
        ELSE Sanitized("stripMemoryTagsFromJson", san.output, r.out, 0, r.log)

StripMemoryTagsFromPrompt ==
    \E r \in {stripMemoryTagsFromPrompt(san.output)} :
        IF r.threw THEN Threw("stripMemoryTagsFromPrompt", san.output)
        ELSE Sanitized("stripMemoryTagsFromPrompt", san.output, r.out, 0, r.log)

InitRedact ==
    /\ NoRetention
    /\ tasks = [t \in Tasks |-> IdleTask]
    /\ keyring = [k \in SecretKey |-> Null]
    /\ env = [k \in SecretKey |-> Null]
    /\ keytarInstalled = FALSE
    /\ initialized = FALSE
    /\ keytar = "null"
    /\ keytarAvailable = FALSE
    /\ nextRand = 0
    /\ CLAUDE_MEM_REDACT_PATTERNS \in PatternSettings
    /\ \E content \in Contents \cup NonStrings : san = NoCall(content)

NextRedact ==
    \/ RedactSecrets
    \/ StripMemoryTagsFromJson
    \/ StripMemoryTagsFromPrompt

SpecRedact == InitRedact /\ [][NextRedact]_vars

------------------------------------------------------------------------------
(* The sanitizer and the credential subsystem in one process *)

\* the contents the sanitizer is given
LogContents == {<<" ", "h", "i", " ", "s", "k", "-">> \o Rep("a", 20)}

InitLogs ==
    /\ NoRetention
    /\ tasks = [t \in Tasks |-> IdleTask]
    /\ \E stored \in BOOLEAN :
          /\ keyring = [k \in SecretKey |->
                          IF ~stored THEN Null
                          ELSE IF k = ENCRYPTION_KEY_NAME THEN StoredKey ELSE StoredToken]
          /\ env = [k \in SecretKey |->
                      IF ~stored THEN Null
                      ELSE IF k = ENCRYPTION_KEY_NAME THEN EnvKey ELSE EnvToken]
    /\ keytarInstalled \in BOOLEAN
    /\ initialized = FALSE
    /\ keytar = "null"
    /\ keytarAvailable = FALSE
    /\ nextRand = 0
    /\ CLAUDE_MEM_REDACT_PATTERNS \in PatternSettings
    /\ \E content \in LogContents : san = NoCall(content)

\* The two subsystems share no state and a record is written by the call that
\* makes it, so the records do not depend on how the calls are ordered: the
\* calls of the sanitizer are taken before the first call of the credential
\* subsystem.
NoCredentialCall == tasks = [t \in Tasks |-> IdleTask]

\* stripMemoryTagsFromJson is the same call of stripTagsInternal as
\* stripMemoryTagsFromPrompt and writes the same records
NextLogs ==
    \/ Step(Caller)
    \/ NoCredentialCall /\ RedactSecrets
    \/ NoCredentialCall /\ StripMemoryTagsFromPrompt

SpecLogs == InitLogs /\ [][NextLogs]_vars

------------------------------------------------------------------------------
(* Vocabulary of the properties *)

\* task t takes a step of a call of op
StepOf(t, op) == tasks'[t].op = op /\ tasks'[t] # tasks[t]

\* the step of task t in which its call of op returns or throws
Completes(t, op) == StepOf(t, op) /\ tasks'[t].pc = "done"

\* the log of a call shows message msg
Logged(log, msg) == \E i \in 1..Len(log) : log[i].msg = msg

\* the keytar read of the call rejected
ReadRejected(log) == Logged(log, "Failed to retrieve secret")

\* the keytar write of the call did not happen or rejected
WriteFailed(log) ==
    \/ Logged(log, "Failed to store secret")
    \/ Logged(log, "Keyring unavailable. Set via environment variable instead")
    \/ Logged(log, "Attempted to store empty secret")

\* no key in the keyring and none in the environment
NoKeyAvailable == ~Truthy(keyring[ENCRYPTION_KEY_NAME]) /\ ~Truthy(env[ENCRYPTION_KEY_NAME])

\* a call of the rotation flow of task t has returned: its number
RotationStage(t) ==
    IF tasks[t].flow = "rotation" /\ tasks[t].pc = "done" THEN Len(tasks[t].hist) + 1 ELSE 0

TokenStage(t) ==
    IF tasks[t].flow = "token" /\ tasks[t].pc = "done" THEN Len(tasks[t].hist) + 1 ELSE 0

\* what getSecret(name) resolves to
Lookup(avail, kr, e, name) ==
    IF avail /\ Truthy(kr[name]) THEN RetStr(kr[name])
    ELSE IF Truthy(e[name]) THEN RetStr(e[name])
    ELSE RetNull

------------------------------------------------------------------------------
(* C1 *)

\* C1: rotateEncryptionKey never writes to the credential store: no step of a
\* call of rotateEncryptionKey changes the keyring or the environment, and
\* when it returns {oldKey, newKey} the new key is nowhere in either store; a
\* key returned by a rotation enters the keyring only in a step of
\* confirmKeyRotation for that key.
C1_RotateNeverWrites ==
    [][\A t \in Tasks :
        /\ StepOf(t, "rotateEncryptionKey") =>
              /\ keyring' = keyring
              /\ env' = env
              /\ tasks'[t].ret.kind = "pair" =>
                    \A k \in SecretKey :
                        /\ keyring'[k] # tasks'[t].ret.s2
                        /\ env'[k] # tasks'[t].ret.s2
        /\ (/\ RotationStage(t) = 2
            /\ tasks[t].ret.kind = "pair"
            /\ keyring'[ENCRYPTION_KEY_NAME] = tasks[t].ret.s2) =>
              /\ Completes(t, "confirmKeyRotation")
              /\ tasks'[t].arg = tasks[t].ret.s2
      ]_vars

\* a rotation has returned both keys and the store still holds the old one
C1_Witness ==
    \E t \in Tasks :
        /\ tasks[t].op = "rotateEncryptionKey"
        /\ tasks[t].pc = "done"
        /\ tasks[t].ret.kind = "pair"
        /\ keyring[ENCRYPTION_KEY_NAME] = tasks[t].ret.s

------------------------------------------------------------------------------
(* C2 *)

------------------------------------------------------------------------------
(* C3 *)

\* C3: when there is no key in the keyring and none in the environment,
\* rotateEncryptionKey throws, logs the failure, generates no key and leaves
\* the credential store without a key.
C3_RotateWithoutKeyFails ==
    [][\A t \in Tasks :
        (Completes(t, "rotateEncryptionKey") /\ NoKeyAvailable) =>
            /\ tasks'[t].ret = RetThrow
            /\ Logged(tasks'[t].log, "Failed to rotate encryption key")
            /\ nextRand' = nextRand
            /\ keyring' = keyring
            /\ env' = env
            /\ NoKeyAvailable'
      ]_vars

\* a rotation was attempted without a key and threw
C3_Witness ==
    \E t \in Tasks :
        /\ tasks[t].op = "rotateEncryptionKey"
        /\ tasks[t].pc = "done"
        /\ tasks[t].ret = RetThrow
        /\ NoKeyAvailable
        /\ nextRand = 0

------------------------------------------------------------------------------
(* C4 *)

\* task b completes, in this step, a read of the encryption key that it began
\* while the rotation of task a was pending, the rotation is pending still,
\* and the store resolves to the key the rotation found
ReadsDuringRotation(a, b) ==
    /\ PendingRotation(a).on
    /\ \/ Completes(b, "getSecret") /\ tasks'[b].kname = ENCRYPTION_KEY_NAME
       \/ Completes(b, "getOrCreateEncryptionKey")
    /\ PendingRotation(a).newKey \in tasks'[b].during
    /\ Lookup(keytarAvailable, keyring, env, ENCRYPTION_KEY_NAME) =
           RetStr(PendingRotation(a).oldKey)

------------------------------------------------------------------------------
(* C5, C6, C7 *)

\* C5: in every state of keyring and environment, when getOrCreateToken
\* returned t, the validateToken(t) that follows returns true.
C5_FreshTokenValidates ==
    \A t \in Tasks : TokenStage(t) = 2 => tasks[t].ret = RetBool(TRUE)

\* C6: for a token t that validated, after regenerateToken has returned n,
\* validateToken(t) returns false and validateToken(n) returns true; the old
\* and the new token never both validate.
C6_RegenerateInvalidatesOld ==
    \A t \in Tasks :
        LET tk == tasks[t]
            made == Made(tk)
        IN /\ (TokenStage(t) = 4 /\ made[2].ret = RetBool(TRUE)) =>
                 tk.ret = RetBool(FALSE)
           /\ (TokenStage(t) = 5 /\ made[2].ret = RetBool(TRUE)) =>
                 /\ tk.ret = RetBool(TRUE)
                 /\ made[4].ret = RetBool(FALSE)

\* C7: validateToken returns a boolean for every candidate and never throws;
\* false for an empty candidate, when no token is stored, when the candidate
\* differs from the stored token in content or in length; true only when the
\* candidate equals the stored token.
C7_ValidateTotal ==
    \A t \in Tasks :
        (tasks[t].op = "validateToken" /\ tasks[t].pc = "done") =>
            LET stored == Lookup(keytarAvailable, keyring, env, AUTH_TOKEN_NAME).s
                token == tasks[t].arg
            IN /\ tasks[t].ret.kind = "bool"
               /\ tasks[t].ret.b => (Truthy(token) /\ token = stored)
               /\ (~Truthy(token) \/ ~Truthy(stored) \/ token.len # stored.len) =>
                      tasks[t].ret = RetBool(FALSE)

------------------------------------------------------------------------------
(* C8 *)

\* C8: a sanitizer applied to its own output returns it unchanged:
\* stripMemoryTagsFromPrompt of an output of stripMemoryTagsFromPrompt is that
\* output, and redactSecrets of an output of redactSecrets is that output with
\* count 0.
C8_Idempotent ==
    [][\A op \in {san'.op} :
          /\ (op = "stripMemoryTagsFromPrompt" /\ san.op = op) => san'.output = san.output
          /\ (op = "redactSecrets" /\ san.op = op) =>
                 (san'.output = san.output /\ san'.count = 0)]_vars

------------------------------------------------------------------------------
(* C9 *)

\* the log records of the state: those of the calls of the credential
\* subsystem and those of the last call of the sanitizer
Records ==
    UNION {{tasks[t].log[i] : i \in 1..Len(tasks[t].log)} : t \in Tasks}
        \cup {san.log[i] : i \in 1..Len(san.log)}

\* the custom patterns of the setting that compileUserPatterns logs as invalid
RejectedPatterns ==
    LET pieces == Split(CLAUDE_MEM_REDACT_PATTERNS, 1)
    IN {p \in {Trim(pieces[i]) : i \in 1..Len(pieces)} :
          Len(p) > 0 /\ Len(p) <= MAX_PATTERN_LENGTH /\ ~Compiles(p)}

\* C9 as stated: in every reachable state a log record carries counts,
\* lengths, secret names and error messages only: no secret value, no text.
C9_Original ==
    \A rec \in Records : rec.strs = << >> /\ rec.texts = << >>

\* C9: in every reachable state no log record carries a secret value, the
\* content being sanitized or a redacted value; the one text a record carries
\* is the source of a custom pattern of the setting that did not compile, in
\* the warning of compileUserPatterns.
C9_Amended ==
    \A rec \in Records :
        /\ rec.strs = << >>
        /\ \A i \in 1..Len(rec.texts) :
              /\ rec.msg = "invalid redaction pattern, skipping"
              /\ rec.texts[i] \in RejectedPatterns
              /\ rec.texts[i] \notin {san.input, san.output}

\* the sanitizer has redacted a secret and logged the count next to the
\* warning for a rejected pattern, and a call of the credential subsystem
\* that stored or read a secret has logged
C9_Witness ==
    /\ Logged(san.log, "secrets redacted from content")
    /\ Logged(san.log, "invalid redaction pattern, skipping")
    /\ san.count > 0
    /\ \E t \in Tasks :
          /\ tasks[t].pc = "done"
          /\ tasks[t].op \in {"setSecret", "getOrCreateToken", "getOrCreateEncryptionKey"}
          /\ tasks[t].log # << >>

------------------------------------------------------------------------------
(* C10 *)

------------------------------------------------------------------------------
(* C11 *)

\* C11: setSecret(name, value) returns true only when the value was written to
\* the keyring; no step of a call changes the environment, the keyring changes
\* only in the step in which the call returns true, and then only at name; a
\* call that returns false has changed neither.
C11_SetSecretNoFallback ==
    [][\A t \in Tasks :
          StepOf(t, "setSecret") =>
              /\ env' = env
              /\ IF Completes(t, "setSecret") /\ tasks'[t].ret = RetBool(TRUE)
                 THEN /\ Truthy(tasks'[t].arg)
                      /\ keytarAvailable
                      /\ keyring' = [keyring EXCEPT ![tasks'[t].kname] = tasks'[t].arg]
                 ELSE keyring' = keyring
              /\ Completes(t, "setSecret") => tasks'[t].ret.kind = "bool"]_vars

\* a setSecret whose keyring write rejected has returned false, and the
\* keyring holds what it held, not the value
C11_Witness ==
    \E t \in Tasks :
        /\ tasks[t].op = "setSecret"
        /\ tasks[t].pc = "done"
        /\ tasks[t].ret = RetBool(FALSE)
        /\ Logged(tasks[t].log, "Failed to store secret")
        /\ Truthy(tasks[t].arg)
        /\ keyring[tasks[t].kname] # tasks[t].arg
        /\ Truthy(keyring[tasks[t].kname])

------------------------------------------------------------------------------
(* C12 *)

\* task t takes a step of a deleteSecret, called directly or by
\* deleteEncryptionKey
Deleting(t) == StepOf(t, "deleteSecret") \/ StepOf(t, "deleteEncryptionKey")

DeleteReturns(t) == Completes(t, "deleteSecret") \/ Completes(t, "deleteEncryptionKey")

\* what getSecret(name) resolves to from the environment alone
EnvOnly(name) == IF Truthy(env[name]) THEN RetStr(env[name]) ELSE RetNull

\* C12 as stated: deleteSecret(name) changes no environment variable and no
\* other secret; once it has returned, getSecret(name) resolves to the
\* environment value if one is set and to null otherwise; with the keyring
\* unavailable it returns false and changes nothing.
C12_Original ==
    [][\A t \in Tasks :
          Deleting(t) =>
              /\ env' = env
              /\ \A k \in SecretKey \ {tasks'[t].kname} : keyring'[k] = keyring[k]
              /\ DeleteReturns(t) =>
                    /\ Lookup(keytarAvailable', keyring', env', tasks'[t].kname)
                           = EnvOnly(tasks'[t].kname)
                    /\ ~keytarAvailable' =>
                           (tasks'[t].ret = RetBool(FALSE) /\ keyring' = keyring)]_vars

\* C12: deleteSecret(name) changes no environment variable and no other
\* secret.  When the keyring is available and keytar.deletePassword succeeds,
\* the entry of name is gone when it returns, it returns whether there was
\* one, and getSecret(name) then resolves to the environment value if one is
\* set and to null otherwise.  When the keyring is unavailable or
\* keytar.deletePassword fails with an error it returns false and changes
\* nothing: an entry of name is still in the keyring.
C12_Amended ==
    [][\A t \in Tasks :
          Deleting(t) =>
              /\ env' = env
              /\ \A k \in SecretKey \ {tasks'[t].kname} : keyring'[k] = keyring[k]
              /\ ~DeleteReturns(t) => keyring' = keyring
              /\ DeleteReturns(t) =>
                    IF keytarAvailable' /\ ~Logged(tasks'[t].log, "Failed to delete secret")
                    THEN /\ keyring'[tasks'[t].kname] = Null
                         /\ tasks'[t].ret = RetBool(keyring[tasks'[t].kname] # Null)
                         /\ Lookup(keytarAvailable', keyring', env', tasks'[t].kname)
                                = EnvOnly(tasks'[t].kname)
                    ELSE /\ tasks'[t].ret = RetBool(FALSE)
                         /\ keyring' = keyring]_vars

\* a deleteSecret has removed the keyring entry of its name and returned
\* true; the other secret is still in the keyring and the environment still
\* holds a value for the name
C12_Witness ==
    \E t \in Tasks :
        /\ tasks[t].op = "deleteSecret"
        /\ tasks[t].pc = "done"
        /\ tasks[t].ret = RetBool(TRUE)
        /\ keyring[tasks[t].kname] = Null
        /\ Truthy(env[tasks[t].kname])
        /\ \E k \in SecretKey \ {tasks[t].kname} : Truthy(keyring[k])

------------------------------------------------------------------------------
(* C13 *)

\* what a getSecret(name) made by task t returns in the state at hand, its
\* keyring lookup succeeding (ok) or failing with an error
GetSecretWould(t, name, ok) ==
    LET m == [Machine(t) EXCEPT !.t.kname = name]
    IN IF KeytarUsable(m) THEN getSecretDone(m, ok).t.kret ELSE getSecretEnv(m).t.kret

\* C13: for every secret name, hasSecret(name) returns true exactly when
\* getSecret(name), in the state hasSecret returns in and with the same
\* outcome of the keyring lookup, returns a value that is not null; a keyring
\* lookup that fails with an error makes hasSecret return false and getSecret
\* null.
C13_HasIffGet ==
    [][\A t \in Tasks :
          Completes(t, "hasSecret") =>
              LET ok == ~Logged(tasks'[t].log, "Failed to check secret existence")
                  got == GetSecretWould(t, tasks'[t].kname, ok)
              IN /\ UNCHANGED <<keyring, env, keytar, keytarAvailable>>
                 /\ tasks'[t].ret.kind = "bool"
                 /\ tasks'[t].ret.b <=> got # RetNull
                 /\ ~ok => (tasks'[t].ret = RetBool(FALSE) /\ got = RetNull)]_vars

\* hasSecret has returned true for a name the keyring holds no value for:
\* the value is in the environment
C13_Witness ==
    \E t \in Tasks :
        /\ tasks[t].op = "hasSecret"
        /\ tasks[t].pc = "done"
        /\ tasks[t].ret = RetBool(TRUE)
        /\ keytarAvailable
        /\ ~Truthy(keyring[tasks[t].kname])
        /\ GetSecretWould(t, tasks[t].kname, TRUE) = RetStr(env[tasks[t].kname])

------------------------------------------------------------------------------
(* C14 *)

\* the tasks whose initialize() awaits the import of keytar
Probing == {t \in Tasks : tasks[t].pc = "import"}

\* the call of task t has returned, in this step, through the branch a
\* method takes when it reads the keyring as unavailable
ReturnsUnavailable(t) ==
    \/ Completes(t, "isKeytarAvailable") /\ tasks'[t].ret = RetBool(FALSE)
    \/ /\ Completes(t, "setSecret")
       /\ Logged(tasks'[t].log, "Keyring unavailable. Set via environment variable instead")
    \/ /\ Completes(t, "deleteSecret")
       /\ Logged(tasks'[t].log, "Keyring unavailable. Cannot delete secret")

\* C14: the probe of the keyring is made lazily and at most once per process:
\* the first operation of the credential store starts it, no operation starts
\* it again, and availability changes only when it completes; its outcome is
\* the availability every operation uses from then on: isKeytarAvailable()
\* returns it and no operation takes the branch for an unavailable keyring in
\* a process whose probe succeeds; a probe that fails to load keytar sets
\* availability to false and no operation throws.
C14_ProbeOnce ==
    [][/\ initialized => initialized'
       /\ Cardinality(Probing') <= 1
       /\ \A t \in Tasks :
             /\ (t \in Probing' \ Probing) => (~initialized /\ initialized')
             /\ (tasks'[t].op \in KeyringMethods /\ Completes(t, tasks'[t].op)) =>
                    tasks'[t].ret.kind \in {"bool", "str", "null"}
             /\ Completes(t, "isKeytarAvailable") => tasks'[t].ret = RetBool(keytarInstalled)
             /\ ReturnsUnavailable(t) => ~keytarInstalled
       /\ keytarAvailable' # keytarAvailable => Probing' # Probing
       /\ (Probing' # Probing /\ Probing' = {}) => keytarAvailable' = keytarInstalled]_vars

------------------------------------------------------------------------------
(* C15 *)

\* C15: every value getOrCreateEncryptionKey() returns satisfies validateKey:
\* a validateKey of the key it has just returned returns true, whatever the
\* keyring and the environment held.
C15_ReturnsWellFormed ==
    [][\A t \in Tasks :
          (/\ tasks[t].op = "getOrCreateEncryptionKey"
           /\ tasks[t].pc = "done"
           /\ tasks[t].ret.kind = "str"
           /\ Completes(t, "validateKey")
           /\ tasks'[t].arg = tasks[t].ret.s) =>
              tasks'[t].ret = RetBool(TRUE)]_vars

------------------------------------------------------------------------------
(* C16 *)

------------------------------------------------------------------------------
(* C17 *)

\* the positions of s where lit stands
Occurrences(s, lit) == {i \in 1..Len(s) : LitAt(s, i, lit)}

\* the k-th smallest element of a set of numbers
Nth(set, k) == CHOOSE x \in set : Cardinality({y \in set : y < x}) = k - 1

\* the <private> tags of s are well formed: every opening tag is closed
\* before the next one opens, and no closing tag stands alone
WellFormedPrivate(s) ==
    LET opens == Occurrences(s, OpenTag(TagPrivate))
        closes == Occurrences(s, CloseTag(TagPrivate))
        n == Cardinality(opens)
    IN /\ Cardinality(closes) = n
       /\ \A k \in 1..n : Nth(opens, k) < Nth(closes, k)
       /\ \A k \in 1..(n - 1) : Nth(closes, k) < Nth(opens, k + 1)

\* the positions of s inside a <private> span, tags included
InPrivateSpan(s) ==
    LET opens == Occurrences(s, OpenTag(TagPrivate))
        closes == Occurrences(s, CloseTag(TagPrivate))
    IN {i \in 1..Len(s) :
           \E k \in 1..Cardinality(opens) :
               /\ Nth(opens, k) <= i
               /\ i < Nth(closes, k) + Len(CloseTag(TagPrivate))}

\* s with the characters at the positions of drop left out
RECURSIVE Without(_, _, _)
Without(s, drop, i) ==
    IF i > Len(s) THEN << >>
    ELSE (IF i \in drop THEN << >> ELSE <<s[i]>>) \o Without(s, drop, i + 1)

\* s with exactly its <private> spans removed
WithoutPrivate(s) == Without(s, InPrivateSpan(s), 1)

\* s holds no tag of the two other kinds, and no enabled pattern matches it
NothingElse(s) ==
    /\ \A name \in {TagContext, TagSecret} :
          Occurrences(s, OpenTag(name)) \cup Occurrences(s, CloseTag(name)) = {}
    /\ \A k \in 1..Len(getRedactionPatterns.patterns) :
          \A j \in 1..Len(s) : MatchEnd(getRedactionPatterns.patterns[k], s, j) = 0

\* the content C of a call of stripMemoryTagsFromPrompt holds well-formed
\* <private> tags and nothing else the engine acts on
OnlyPrivateTags ==
    /\ san.op = "stripMemoryTagsFromPrompt"
    /\ Occurrences(san.input, OpenTag(TagPrivate)) # {}
    /\ WellFormedPrivate(san.input)
    /\ NothingElse(san.input)

\* C17 as stated: for content with only well-formed <private> tags and no
\* pattern match, stripMemoryTagsFromPrompt returns the content with exactly
\* the tagged spans removed, every other character kept, whitespace included.
C17_Original == OnlyPrivateTags => san.output = WithoutPrivate(san.input)

\* C17: for content with only well-formed <private> tags, where no pattern
\* matches and no other tag stands in the content or in what is left of it,
\* stripMemoryTagsFromPrompt returns the content with exactly the tagged spans
\* removed and then trimmed: whitespace at the two ends is dropped, every
\* other character is kept in place.
C17_Amended ==
    (OnlyPrivateTags /\ NothingElse(WithoutPrivate(san.input)))
        => san.output = Trim(WithoutPrivate(san.input))

\* a call on content that starts with whitespace and holds a <private> span:
\* the span is gone and so is the whitespace in front
C17_Witness ==
    /\ OnlyPrivateTags
    /\ NothingElse(WithoutPrivate(san.input))
    /\ san.input[1] \in WhiteSpace
    /\ Len(san.output) < Len(WithoutPrivate(san.input))
    /\ san.output = Trim(WithoutPrivate(san.input))

------------------------------------------------------------------------------
(* redactSecrets under lists of custom patterns *)

\* the entries the lists are made of: a literal pattern, a pattern that does
\* not compile, and a literal pattern one character over the limit
PatternPieces ==
    {<<"h", "i">>, <<"(", "x">>, Rep("a", MAX_PATTERN_LENGTH + 1)}

\* the entries of a list as the setting holds them: a comma and a blank
\* between two entries
RECURSIVE JoinComma(_)
JoinComma(list) ==
    IF list = << >> THEN << >>
    ELSE IF Len(list) = 1 THEN list[1]
    ELSE list[1] \o <<",", " ">> \o JoinComma(Tail(list))

\* lists of up to three entries, a list whose only pattern that compiles
\* stands behind MAX_CUSTOM_PATTERNS entries that do not, and a list of one
\* more pattern than MAX_CUSTOM_PATTERNS, all of which compile
PatternLists ==
    {<< >>,
     [i \in 1..(MAX_CUSTOM_PATTERNS + 1) |-> <<"h", "i">>],
     [i \in 1..(MAX_CUSTOM_PATTERNS + 1) |->
         IF i <= MAX_CUSTOM_PATTERNS THEN <<"(">> ELSE <<"h", "i">>]}
    \cup {<<a>> : a \in PatternPieces}
    \cup {<<a, b>> : a \in PatternPieces, b \in PatternPieces}
    \cup {<<a, b, c>> : a \in PatternPieces, b \in PatternPieces, c \in PatternPieces}

\* the contents redactSecrets is given
PatternContents ==
    {<<"h", "i", " ", "(", "x", " ", "h", "i", " ">> \o Rep("a", MAX_PATTERN_LENGTH + 1),
     Rep("A", 40) \o <<" ", "s", "k", "-">> \o Rep("a", 17) \o <<"a", "w", "s">>,
     <<" ", "h", "i", " ", "s", "k", "-">> \o Rep("a", 20)}

InitPatterns ==
    /\ NoRetention
    /\ tasks = [t \in Tasks |-> IdleTask]
    /\ keyring = [k \in SecretKey |-> Null]
    /\ env = [k \in SecretKey |-> Null]
    /\ keytarInstalled = FALSE
    /\ initialized = FALSE
    /\ keytar = "null"
    /\ keytarAvailable = FALSE
    /\ nextRand = 0
    /\ \E list \in PatternLists : CLAUDE_MEM_REDACT_PATTERNS = JoinComma(list)
    /\ \E content \in PatternContents : san = NoCall(content)

NextPatterns == RedactSecrets

SpecPatterns == InitPatterns /\ [][NextPatterns]_vars

------------------------------------------------------------------------------
(* C18 *)

\* every match a call of match() would report in s, for each enabled
\* pattern on its own: <<number of the pattern, start, end>>
AllMatches(s) ==
    UNION {TheOnly({{<<k, ms[n][1], ms[n][2]>> : n \in 1..Len(ms)} :
                       ms \in {Matches(getRedactionPatterns.patterns[k], s)}}) :
              k \in 1..Len(getRedactionPatterns.patterns)}

\* no two of the matches share a character
NonOverlapping(ms) ==
    \A m1 \in ms : \A m2 \in ms :
        m1 # m2 => (m1[3] <= m2[2] \/ m2[3] <= m1[2])

\* how often the marker stands in s
MarkerCount(s) == Cardinality({i \in 1..Len(s) : LitAt(s, i, REDACTED)})

\* C18: when the matches of the enabled patterns (default and custom) in the
\* content C of a redactSecrets call do not overlap and are N in number, the
\* call returns count N and its output holds N markers more than C.
C18_CountsEveryMatch ==
    san.op = "redactSecrets" =>
        \A ms \in {AllMatches(san.input)} :
            NonOverlapping(ms) =>
                /\ san.count = Cardinality(ms)
                /\ MarkerCount(san.output) = MarkerCount(san.input) + Cardinality(ms)

------------------------------------------------------------------------------
(* C19 *)

\* C19: a call of redactSecrets, stripMemoryTagsFromPrompt or
\* stripMemoryTagsFromJson on null, undefined or another value that is not a
\* string does not throw and returns the empty string with a count of zero.
C19_NonStringGivesEmpty ==
    (san.op # "none" /\ san.input \in NonStrings) =>
        /\ ~san.threw
        /\ san.output = << >>
        /\ san.count = 0

------------------------------------------------------------------------------
(* C20 *)

\* the patterns of the comma-separated list, in its order
ListedPatterns ==
    LET pieces == Split(CLAUDE_MEM_REDACT_PATTERNS, 1)
    IN SelectSeq([i \in 1..Len(pieces) |-> Trim(pieces[i])], NonEmpty)

\* a pattern that is not over the length limit and compiles
Valid(pattern) == Len(pattern) <= MAX_PATTERN_LENGTH /\ Compiles(pattern)

\* the listed patterns that are valid, each compiled
ValidPatterns ==
    LET valid == SelectSeq(ListedPatterns, Valid)
    IN [i \in 1..Len(valid) |-> Pattern("user", valid[i])]

\* C20: in a redactSecrets call under a comma-separated list of custom
\* patterns, no pattern of the list throws; one that is longer than 200
\* characters or does not compile is skipped with a warning and not applied;
\* every valid pattern of the list, before or after a skipped one, is
\* applied to all its occurrences: the call returns what the default
\* patterns followed by the valid patterns of the list, and no others, make
\* of the content.
C20_SkippedPatternsOnly ==
    (san.op = "redactSecrets" /\ san.input \notin NonStrings /\ san.input # << >>) =>
        /\ ~san.threw
        /\ \A i \in 1..Len(ListedPatterns) :
              LET pattern == ListedPatterns[i] IN
              IF Valid(pattern)
              THEN Occurrences(san.output, pattern) = {}
              ELSE /\ \A k \in 1..Len(getRedactionPatterns.patterns) :
                         getRedactionPatterns.patterns[k] # Pattern("user", pattern)
        /\ \A r \in {ApplyPatterns(DEFAULT_REDACTION_PATTERNS \o ValidPatterns, 1,
                                   san.input, 0)} :
              san.output = r.redacted /\ san.count = r.count

------------------------------------------------------------------------------
(* C21 *)

\* the custom patterns a redactSecrets call compiled
AcceptedPatterns ==
    SubSeq(getRedactionPatterns.patterns, Len(DEFAULT_REDACTION_PATTERNS) + 1,
           Len(getRedactionPatterns.patterns))

\* how many of the first n listed patterns are valid
ValidBefore(n) == Cardinality({i \in 1..n : Valid(ListedPatterns[i])})

\* C21: a redactSecrets call accepts at most 50 custom patterns, and a valid
\* pattern of the list is left out only when 50 valid patterns stand before
\* it in the list; leaving it out raises no error.
C21_CapOnAccepted ==
    (san.op = "redactSecrets" /\ san.input \notin NonStrings /\ san.input # << >>) =>
        /\ ~san.threw
        /\ Len(AcceptedPatterns) <= MAX_CUSTOM_PATTERNS
        /\ \A i \in 1..Len(ListedPatterns) :
              (Valid(ListedPatterns[i]) /\ ValidBefore(i - 1) < MAX_CUSTOM_PATTERNS) =>
                  \E k \in 1..Len(AcceptedPatterns) :
                      AcceptedPatterns[k] = Pattern("user", ListedPatterns[i])

------------------------------------------------------------------------------
(* stripTagsInternal on content around the tag limit *)

\* text repeated n times
Times(text, n) == [i \in 1..(n * Len(text)) |-> text[((i - 1) % Len(text)) + 1]]

\* np opening <private> tags, then nc opening <claude-mem-context> tags, then
\* ns opening <secret> tags
Opens(np, nc, ns) ==
    Times(OpenTag(TagPrivate), np) \o Times(OpenTag(TagContext), nc)
        \o Times(OpenTag(TagSecret), ns)

\* how many tags of each kind open the content: under the limit, at the
\* limit, and over it, of one kind and of the three kinds together
TagCounts ==
    {<<1, 0, 1>>, <<2, 1, 0>>, <<MAX_TAG_COUNT, 0, 0>>, <<MAX_TAG_COUNT + 1, 0, 0>>,
     <<0, 0, MAX_TAG_COUNT + 1>>, <<34, 33, 33>>, <<34, 34, 33>>}

\* what follows the opening tags
TagTails ==
    {<< >>,
     <<"x", "<", "/", "p", "r", "i", "v", "a", "t", "e", ">", " ", "h", "i", " ">>,
     <<"k", "<", "/", "s", "e", "c", "r", "e", "t", ">", " ", "p", "w", "d", "=", "x">>,
     <<"s">> \o CloseTag(TagContext) \o <<" ", "s", "k", "-">> \o Rep("a", 20),
     <<" ", "h", "i", " ">>}

TagContents == {Opens(n[1], n[2], n[3]) \o tail : n \in TagCounts, tail \in TagTails}

InitTags ==
    /\ NoRetention
    /\ tasks = [t \in Tasks |-> IdleTask]
    /\ keyring = [k \in SecretKey |-> Null]
    /\ env = [k \in SecretKey |-> Null]
    /\ keytarInstalled = FALSE
    /\ initialized = FALSE
    /\ keytar = "null"
    /\ keytarAvailable = FALSE
    /\ nextRand = 0
    /\ CLAUDE_MEM_REDACT_PATTERNS \in PatternSettings
    /\ \E content \in TagContents : san = NoCall(content)

NextTags ==
    \/ StripMemoryTagsFromJson
    \/ StripMemoryTagsFromPrompt

SpecTags == InitTags /\ [][NextTags]_vars

------------------------------------------------------------------------------
(* C22 *)

\* the three tag passes, the patterns and the trim, whatever the number of tags
Transformed(content) ==
    Trim(redactSecrets(
            Replace(Replace(Replace(content, Pattern("tag", TagContext), << >>),
                            Pattern("tag", TagPrivate), << >>),
                    Pattern("tag", TagSecret), REDACTED)).redacted)

\* a call of one of the two stripping functions on a string
Stripped ==
    /\ san.op \in {"stripMemoryTagsFromJson", "stripMemoryTagsFromPrompt"}
    /\ san.input \notin NonStrings

\* the opening tags of the three kinds in s, counted together
OpeningTags(s) ==
    Cardinality(UNION {Occurrences(s, OpenTag(name)) :
                          name \in {TagPrivate, TagContext, TagSecret}})

\* the "tag count exceeds limit" records of a log
TagWarnings(log) == {i \in 1..Len(log) : log[i].msg = "tag count exceeds limit"}

\* C22: a stripping call returns what the same transformations make of its
\* content whether the content has more than 100 opening tags or not, and
\* its log holds the "tag count exceeds limit" warning, once, at warning
\* level, with the tag count and the content length, exactly when the three
\* kinds of opening tags number more than 100 together.
C22_TagLimitFailOpen ==
    Stripped =>
        /\ ~san.threw
        /\ san.output = Transformed(san.input)
        /\ (OpeningTags(san.input) > MAX_TAG_COUNT) <=> (TagWarnings(san.log) # {})
        /\ Cardinality(TagWarnings(san.log)) <= 1
        /\ \A i \in TagWarnings(san.log) :
              /\ san.log[i].lvl = "warn"
              /\ san.log[i].nums =
                     <<OpeningTags(san.input), MAX_TAG_COUNT, Len(san.input)>>

\* a call on content with 34 <private>, 34 <claude-mem-context> and 33
\* <secret> opening tags: the warning is there, and the secret span and the
\* password behind it are redacted all the same
C22_Witness ==
    /\ Stripped
    /\ OpeningTags(san.input) = MAX_TAG_COUNT + 1
    /\ Occurrences(san.input, OpenTag(TagContext)) # {}
    /\ Occurrences(san.input, OpenTag(TagSecret)) # {}
    /\ TagWarnings(san.log) # {}
    /\ MarkerCount(san.output) = 2
    /\ san.output = Transformed(san.input)

------------------------------------------------------------------------------
(* stripMemoryTagsFromJson on JSON text *)

\* "text" as JSON writes a string without characters to escape
JsonString(text) == <<"\"">> \o text \o <<"\"">>

\* the JSON text of an object of one or two members with string values
JsonObject1(k, v) == <<"{">> \o JsonString(k) \o <<":">> \o JsonString(v) \o <<"}">>
JsonObject2(k1, v1, k2, v2) ==
    <<"{">> \o JsonString(k1) \o <<":">> \o JsonString(v1) \o <<",">>
        \o JsonString(k2) \o <<":">> \o JsonString(v2) \o <<"}">>

\* string values of a tool input or response
JsonValues ==
    {<<"h", "i">>,
     <<"p", "w", "d", "=", "x">>,
     OpenTag(TagPrivate) \o <<"x">> \o CloseTag(TagPrivate),
     OpenTag(TagSecret) \o <<"k">> \o CloseTag(TagSecret) \o <<" ", "y">>,
     <<"s", "k", "-">> \o Rep("a", 20),
     <<"x">> \o OpenTag(TagPrivate),
     CloseTag(TagPrivate) \o <<"y">>,
     Rep("a", 20)}

JsonKeys == {<<"a">>, <<"t", "o", "k", "e", "n">>}

JsonContents ==
    {JsonObject1(k, v) : k \in JsonKeys, v \in JsonValues}
    \cup {JsonObject2(<<"a">>, v1, <<"b">>, v2) : v1 \in JsonValues, v2 \in JsonValues}

InitJson ==
    /\ NoRetention
    /\ tasks = [t \in Tasks |-> IdleTask]
    /\ keyring = [k \in SecretKey |-> Null]
    /\ env = [k \in SecretKey |-> Null]
    /\ keytarInstalled = FALSE
    /\ initialized = FALSE
    /\ keytar = "null"
    /\ keytarAvailable = FALSE
    /\ nextRand = 0
    /\ CLAUDE_MEM_REDACT_PATTERNS \in PatternSettings
    /\ \E content \in JsonContents : san = NoCall(content)

NextJson == StripMemoryTagsFromJson

SpecJson == InitJson /\ [][NextJson]_vars

------------------------------------------------------------------------------
(* C23 *)

\* s is the JSON text of an object of n members with string values, written
\* without blanks and without escapes: braces at the two ends, 4n quotes,
\* a colon between the quotes of a key and of its value, a comma between
\* one member and the next
IsJsonObject(s, n) ==
    LET quotes == Occurrences(s, <<"\"">>)
        q(k) == Nth(quotes, k)
    IN /\ n >= 1
       /\ Cardinality(quotes) = 4 * n
       /\ \A i \in 1..Len(s) : s[i] # "\\"
       /\ s[1] = "{" /\ q(1) = 2
       /\ s[Len(s)] = "}" /\ q(4 * n) = Len(s) - 1
       /\ \A m \in 1..n :
             /\ SubSeq(s, q(4 * m - 2) + 1, q(4 * m - 1) - 1) = <<":">>
             /\ m < n => SubSeq(s, q(4 * m) + 1, q(4 * m + 1) - 1) = <<",">>

\* C23: when the content of a stripMemoryTagsFromJson call is the JSON text
\* of an object of n string members, so is the output: no quote, colon,
\* comma or brace of the structure is removed or replaced.
C23_JsonStaysValid ==
    \A n \in 1..2 :
        (san.op = "stripMemoryTagsFromJson" /\ IsJsonObject(san.input, n))
            => (~san.threw /\ IsJsonObject(san.output, n))

------------------------------------------------------------------------------
(* C25 *)

\* the positions of s inside a span <name>...</name>, tags included, as the
\* scan of the pass finds the spans
InSpan(s, name) ==
    UNION {TheOnly({{i \in 1..Len(s) : \E k \in 1..Len(ms) : ms[k][1] <= i /\ i < ms[k][2]} :
                       ms \in {Matches(Pattern("tag", name), s)}})}

\* s with its <name> spans deleted, every other character in place
Deleted(s, name) == Without(s, InSpan(s, name), 1)

\* what is left of the content after the three tag passes in their order
AfterTagPasses(content) ==
    Replace(Deleted(Deleted(content, TagContext), TagPrivate),
            Pattern("tag", TagSecret), REDACTED)

\* the "secrets redacted from content" records of a log
RedactionRecords(log) ==
    {i \in 1..Len(log) : log[i].msg = "secrets redacted from content"}

\* C25: a stripping call deletes the <claude-mem-context> spans of its
\* content, then the <private> spans of what is left, then replaces the
\* <secret> spans of what is left by the marker, then applies the patterns
\* to that text and to no other (the matches it reports are those of that
\* text, whose length it logs), then trims; no character of a deleted span
\* is in the text the patterns and the output are made from.
C25_FixedOrder ==
    Stripped =>
        \A left \in {AfterTagPasses(san.input)} :
            \A r \in {redactSecrets(left)} :
                /\ san.output = Trim(r.redacted)
                /\ (r.count > 0) <=> (RedactionRecords(san.log) # {})
                /\ \A i \in RedactionRecords(san.log) :
                      san.log[i].nums = <<r.count, Len(left)>>

\* a call where the order shows: the <private> span stands inside the
\* opening <claude-mem-context> tag, so that the context pass finds no span
\* and the span the private pass completes stays, and the patterns redact
\* nothing
C25_Witness ==
    /\ Stripped
    /\ InSpan(san.input, TagPrivate) # {}
    /\ InSpan(san.input, TagContext) = {}
    /\ InSpan(san.output, TagContext) # {}
    /\ san.output = Trim(AfterTagPasses(san.input))

\* a call where a pattern matches what the tag passes left: the record of
\* the redaction carries the length of that text, shorter than the content
C25_WitnessPattern ==
    /\ Stripped
    /\ InSpan(san.input, TagPrivate) # {}
    /\ \E i \in RedactionRecords(san.log) :
          san.log[i].nums[2] = Len(AfterTagPasses(san.input))
              /\ san.log[i].nums[2] < Len(san.input)

------------------------------------------------------------------------------
(* C26 *)

\* the getSecret call of task t has returned, in this step, something else
\* than the value the keyring holds under its name, without a keytar read
\* that rejected
SkipsKeyring(t) ==
    /\ Completes(t, "getSecret")
    /\ Truthy(keyring[tasks'[t].kname])
    /\ ~ReadRejected(tasks'[t].log)
    /\ tasks'[t].ret # RetStr(keyring[tasks'[t].kname])

\* C26: an operation of the credential store that starts while the probe of
\* another operation still awaits the import of keytar does not get past
\* its reading of the availability flag before the probe has completed (a
\* setSecret of an empty value returns before it reads the flag), and
\* in a process whose probe succeeds no operation treats the keyring as
\* unavailable: none returns through its branch for an unavailable keyring,
\* and no getSecret passes over a value the keyring holds.
C26_WaitsForProbe ==
    [][\A t \in Tasks :
          /\ (/\ Probing # {}
              /\ t \notin Probing
              /\ tasks'[t].op \in KeyringMethods
              /\ StepOf(t, tasks'[t].op)
              /\ ~Logged(tasks'[t].log, "Attempted to store empty secret"))
                 => tasks'[t].pc \notin {"done", "io"}
          /\ (ReturnsUnavailable(t) \/ SkipsKeyring(t)) => ~keytarInstalled]_vars

------------------------------------------------------------------------------
(* Two callers of getOrCreateToken on an empty store *)

\* neither the keyring nor the environment holds a secret when the process
\* starts; keytar is installed or not
InitTokens ==
    /\ NoRetention
    /\ tasks = [t \in Tasks |-> IdleTask]
    /\ keyring = [k \in SecretKey |-> Null]
    /\ env = [k \in SecretKey |-> Null]
    /\ keytarInstalled \in BOOLEAN
    /\ initialized = FALSE
    /\ keytar = "null"
    /\ keytarAvailable = FALSE
    /\ nextRand = 0
    /\ CLAUDE_MEM_REDACT_PATTERNS = << >>
    /\ san = NoCall(<< >>)

\* the calls of the two tasks overlap at every await
TokenStep(t) ==
    \/ getOrCreateToken(t)
    \/ validateToken(t)
    \/ ImportSettled(t)
    \/ KeytarResolved(t)
    \/ KeytarRejected(t)

NextTokens == \E t \in Tasks : TokenStep(t)

SpecTokens == InitTokens /\ [][NextTokens]_vars

------------------------------------------------------------------------------
(* C27 *)

\* the getOrCreateToken call of task t has returned
TokenReturned(t) == tasks[t].op = "getOrCreateToken" /\ tasks[t].pc = "done"

\* the getOrCreateToken call of task t has returned, and no read or write of
\* the keyring was refused or rejected in it
TokenReturnedStored(t) ==
    TokenReturned(t) /\ ~WriteFailed(tasks[t].log) /\ ~ReadRejected(tasks[t].log)

\* C27 as stated: when the getOrCreateToken calls of two tasks on a store
\* that held no token have returned, with the keyring available and no
\* keytar call rejected, one token has been generated, the two calls
\* have returned the same token, and that token is the stored one, which
\* validates.
C27_Original ==
    (keytarAvailable /\ \A t \in Tasks : TokenReturnedStored(t)) =>
        /\ nextRand <= 1
        /\ \A t \in Tasks, u \in Tasks : tasks[t].ret = tasks[u].ret
        /\ \A t \in Tasks : tasks[t].ret = Lookup(keytarAvailable, keyring, env, AUTH_TOKEN_NAME)

\* C27: of two getOrCreateToken calls on a store that holds no token, each
\* returns a token of 64 characters: the one it found, or one it generated
\* because its read came before any write, and then the keyring, if the
\* write succeeds, holds that token from the write on, until the next
\* write. Two calls return the same token only if one of them found it;
\* when both generated, the tokens differ. A validateToken returns true only
\* for the token the store holds when it reads.
C27_Amended ==
    [][\A t \in Tasks :
          /\ Completes(t, "getOrCreateToken") =>
                /\ tasks'[t].ret.kind = "str"
                /\ tasks'[t].ret.s.len = 2 * TOKEN_BYTES
                /\ IF tasks'[t].gen # Null
                   THEN /\ tasks'[t].ret = RetStr(tasks'[t].gen)
                        /\ ~WriteFailed(tasks'[t].log) =>
                               keyring' = [keyring EXCEPT ![AUTH_TOKEN_NAME] = tasks'[t].gen]
                        /\ WriteFailed(tasks'[t].log) => keyring' = keyring
                   ELSE /\ tasks'[t].ret.s \in {keyring[AUTH_TOKEN_NAME], env[AUTH_TOKEN_NAME]}
                        /\ keyring' = keyring
                /\ \A u \in Tasks \ {t} :
                      (TokenReturned(u) /\ tasks[u].ret = tasks'[t].ret) =>
                          (tasks[u].gen = Null \/ tasks'[t].gen = Null)
          /\ (Completes(t, "validateToken") /\ tasks'[t].ret = RetBool(TRUE)) =>
                tasks'[t].arg \in {keyring[AUTH_TOKEN_NAME], env[AUTH_TOKEN_NAME]}]_vars

\* the two calls overlapped: both generated a token and both wrote it; task
\* t1 then presented the token it had been handed, and validateToken
\* returned false, the keyring holding the token of the other call
C27_Witness ==
    /\ keytarAvailable
    /\ TokenStage("t1") = 2
    /\ tasks["t1"].hist[1].op = "getOrCreateToken"
    /\ ~WriteFailed(tasks["t1"].hist[1].log)
    /\ tasks["t1"].arg = tasks["t1"].hist[1].ret.s
    /\ tasks["t1"].ret = RetBool(FALSE)
    /\ TokenReturnedStored("t2")
    /\ tasks["t2"].gen # Null
    /\ keyring[AUTH_TOKEN_NAME] = tasks["t2"].gen
    /\ tasks["t2"].gen # tasks["t1"].arg

------------------------------------------------------------------------------
(* Retention: calls of the retention manager over a database with old rows *)

InitRetention ==
    /\ tasks = [t \in Tasks |-> IdleTask]
    /\ keyring = [k \in SecretKey |-> Null]
    /\ env = [k \in SecretKey |-> Null]
    /\ keytarInstalled = TRUE
    /\ initialized = FALSE
    /\ keytar = "null"
    /\ keytarAvailable = FALSE
    /\ nextRand = 0
    /\ CLAUDE_MEM_REDACT_PATTERNS = << >>
    /\ san = NoCall(<< >>)
    /\ settingsJson \in
          {SettingsFile([CLAUDE_MEM_RETENTION_ENABLED |-> e,
                         CLAUDE_MEM_RETENTION_DAYS |-> d,
                         CLAUDE_MEM_ARCHIVE_BEFORE_DELETE |-> a], NoApiKeys, TRUE) :
              e \in {TrueText, FalseText}, d \in DaysSettings,
              a \in {TrueText, FalseText}}
    /\ db \in {[NoData EXCEPT !.observations = o, !.session_summaries = s,
                              !.user_prompts = p, !.sdk_sessions = Sessions,
                              !.locked = l, !.archiveWritable = w] :
                  o \in {{}, Observations}, s \in {{}, Summaries},
                  p \in {{}, Prompts}, l \in BOOLEAN, w \in BOOLEAN}
    /\ cleanups = [t \in Tasks |-> IdleCleanup]

RetentionStep(t) ==
    \/ RunCleanup(t)
    \/ CleanupResumes(t)
    \/ GetRetentionStats(t)
    \/ SetRetentionDays(t)

NextRetention == \E t \in Tasks : RetentionStep(t)

SpecRetention == InitRetention /\ [][NextRetention]_vars

------------------------------------------------------------------------------
(* Retention: archive before delete *)

\* the rows of the four tables
Rows(d) ==
    d.observations \cup d.session_summaries \cup d.user_prompts \cup d.sdk_sessions

\* the step is one of the call task t is making
CleanupStep(t) == cleanups'[t] # cleanups[t]

\* the archive file path task t's call of archiveOldData returned: the file is
\* in the archive directory and was written for the cutoff of the call
ArchivedFor(t) ==
    /\ cleanups[t].archivePath # << >>
    /\ cleanups[t].archivePath[1] \in db.archives
    /\ cleanups[t].archivePath[1].cutoffDate = cleanups[t].cutoffDate

\* C28: in a runCleanup with archive-before-delete enabled, rows are deleted
\* only once archiveOldData has returned the path of an archive file written
\* for the same cutoff; when it returned no path the call returns without
\* deleting a row; rows are deleted by no other call; and runCleanup returns
\* normally, also when deleteOldData has thrown.
C28_DeleteOnlyAfterArchive ==
    [][/\ Rows(db') # Rows(db) =>
             \E t \in Tasks : CleanupStep(t) /\ cleanups'[t].op = "runCleanup"
       /\ \A t \in Tasks :
             /\ (/\ CleanupStep(t)
                 /\ Rows(db') # Rows(db)
                 /\ cleanups'[t].settings.archiveBeforeDelete)
                    => ArchivedFor(t)
             /\ (/\ CleanupStep(t)
                 /\ cleanups[t].pc = "archivePath"
                 /\ cleanups[t].archivePath = << >>)
                    => /\ Rows(db') = Rows(db)
                       /\ cleanups'[t].pc = "done"
                       /\ cleanups'[t].deleted = {}
             /\ (cleanups'[t].op = "runCleanup" /\ cleanups'[t].pc = "done")
                    => cleanups'[t].ret = "undefined"]_vars

\* a runCleanup with archive-before-delete enabled has archived old rows,
\* deleted them and returned
C28_Witness ==
    \E t \in Tasks :
        /\ cleanups[t].op = "runCleanup"
        /\ cleanups[t].pc = "done"
        /\ cleanups[t].settings.archiveBeforeDelete
        /\ cleanups[t].deleted # {}
        /\ ArchivedFor(t)

------------------------------------------------------------------------------
(* Retention: a retention of 0 days *)

\* settings.json holds CLAUDE_MEM_RETENTION_DAYS = '0'
RetentionForever(f) ==
    f.exists /\ f.parses /\ f.data.CLAUDE_MEM_RETENTION_DAYS = <<"0">>

\* C29: with CLAUDE_MEM_RETENTION_DAYS set to '0' data is kept forever: a
\* runCleanup that read that value writes no archive and deletes no row, and
\* getRetentionStats reports no record older than retention.
C29_ZeroKeepsForever ==
    [][\A t \in Tasks :
          /\ (/\ CleanupStep(t)
              /\ cleanups'[t].op = "runCleanup"
              /\ cleanups'[t].loaded.CLAUDE_MEM_RETENTION_DAYS = <<"0">>)
                 => /\ Rows(db') = Rows(db)
                    /\ db'.archives = db.archives
          /\ (/\ CleanupStep(t)
              /\ cleanups'[t].op = "getRetentionStats"
              /\ RetentionForever(settingsJson))
                 => /\ cleanups'[t].stats.observationsOlderThanRetention = 0
                    /\ cleanups'[t].stats.summariesOlderThanRetention = 0
                    /\ cleanups'[t].stats.promptsOlderThanRetention = 0]_vars

------------------------------------------------------------------------------
(* Migration: API keys move from settings.json to the keyring *)

ApiNames == {ApiSecrets[i] : i \in 1..Len(ApiSecrets)}

\* the API keys settings.json may hold
ApiKeyFields ==
    {[CLAUDE_MEM_GEMINI_API_KEY |-> g, CLAUDE_MEM_OPENROUTER_API_KEY |-> o] :
        g \in {Null, Empty, Blank, GeminiKey}, o \in {Null, OpenRouterKey}}

InitMigrate ==
    /\ tasks = [t \in Tasks |-> IdleTask]
    /\ keyring \in {[k \in SecretKey \cup ApiNames |->
                        IF k = "GEMINI_API_KEY" THEN g ELSE Null] :
                      g \in {Null, Wrong64}}
    /\ env = [k \in SecretKey \cup ApiNames |-> Null]
    /\ keytarInstalled \in BOOLEAN
    /\ initialized = FALSE
    /\ keytar = "null"
    /\ keytarAvailable = FALSE
    /\ nextRand = 0
    /\ CLAUDE_MEM_REDACT_PATTERNS = << >>
    /\ san = NoCall(<< >>)
    /\ settingsJson \in
          {NoSettingsFile(TRUE)}
          \cup {SettingsFile(NoSettings, keys, w) : keys \in ApiKeyFields, w \in BOOLEAN}
          \cup {[SettingsFile(NoSettings, keys, TRUE) EXCEPT !.parses = FALSE] :
                  keys \in ApiKeyFields}
    /\ db = NoData
    /\ cleanups = [t \in Tasks |-> IdleCleanup]

\* the migration runs at startup, and calls may overlap at every await
MigrateStep(t) ==
    \/ migrateSecretsToKeyring(t)
    \/ ImportSettled(t)
    \/ KeytarResolved(t)
    \/ KeytarRejected(t)

NextMigrate == \E t \in Tasks : MigrateStep(t)

SpecMigrate == InitMigrate /\ [][NextMigrate]_vars

\* settings.json holds the value v under the i-th old key
InFile(f, i, v) == f.exists /\ f.keys[ApiSettings[i]] = v

\* the value v of the i-th key is in settings.json or in the keyring
Held(f, k, i, v) == InFile(f, i, v) \/ k[ApiSecrets[i]] = v

\* the log of the call shows that the call's setSecret(name, ..) returned true
Stored(log, name) ==
    \E j \in 1..Len(log) :
        log[j].msg = "Secret stored in OS keyring" /\ log[j].name = name

\* the log of the call shows that the call's setSecret(name, ..) returned false
StoreFailed(log, name) ==
    \E j \in 1..Len(log) :
        /\ log[j].msg \in {"Failed to store secret",
                           "Keyring unavailable. Set via environment variable instead"}
        /\ log[j].name = name

\* C30: migrateSecretsToKeyring never loses a secret.  In every step, a key
\* value held by settings.json or the keyring is still held by one of them
\* after the step; a key value leaves settings.json only in the write back of
\* a migration, and only when a setSecret of that value has returned true, so
\* that the keyring holds it; and a migration whose setSecret for a key
\* returned false leaves the key in the settings it keeps and in any
\* settings.json it writes.
C30_NoSecretLost ==
    [][\A i \in 1..Len(ApiSettings) : \A v \in {GeminiKey, OpenRouterKey} :
          /\ Held(settingsJson, keyring, i, v) => Held(settingsJson', keyring', i, v)
          /\ (InFile(settingsJson, i, v) /\ ~InFile(settingsJson', i, v))
                => /\ keyring'[ApiSecrets[i]] = v
                   /\ \E t \in Tasks :
                         /\ Completes(t, "migrateSecretsToKeyring")
                         /\ tasks'[t].modified
                         /\ tasks'[t].ret = RetBool(TRUE)
          /\ \A t \in Tasks :
                (/\ StepOf(t, "migrateSecretsToKeyring")
                 /\ StoreFailed(tasks'[t].log, ApiSecrets[i]))
                   => /\ Migratable(tasks'[t].settings.keys[ApiSettings[i]])
                      /\ settingsJson' # settingsJson
                            => InFile(settingsJson', i,
                                      tasks'[t].settings.keys[ApiSettings[i]])]_vars

\* a migration has moved one key to the keyring and removed it from
\* settings.json, while its store of the other key failed and that key is
\* still in settings.json
C30_Witness ==
    \E t \in Tasks :
        /\ tasks[t].op = "migrateSecretsToKeyring"
        /\ tasks[t].pc = "done"
        /\ Stored(tasks[t].log, "GEMINI_API_KEY")
        /\ StoreFailed(tasks[t].log, "OPENROUTER_API_KEY")
        /\ keyring["GEMINI_API_KEY"] = GeminiKey
        /\ ~InFile(settingsJson, 1, GeminiKey)
        /\ InFile(settingsJson, 2, OpenRouterKey)
        /\ keyring["OPENROUTER_API_KEY"] = Null

====
